---------------------------- MODULE Spec2Model ----------------------------
(***************************************************************************)
(* BreakGuard: the break-enforcement state machine (src/src/               *)
(* state_manager.py), the work timer and tray application                  *)
(* (src/src/work_timer.py, class BreakGuardApp) and the lock screen's      *)
(* unlock gate (src/src/lock_screen_pyqt.py, class LockScreen).            *)
(*                                                                         *)
(* Eight specifications share the variables:                               *)
(*   SpecSM    StateManager driven directly through its public methods;    *)
(*   SpecPersist  the same, restricted to the persistence methods;         *)
(*   SpecLoad  a StateManager loading a state file it did not write;       *)
(*   Spec      BreakGuardApp: timers, warning, snooze, pause, lock, unlock *)
(*             and process restart, the lock screen reduced to its         *)
(*             unlocked signal;                                            *)
(*   SpecTick  BreakGuardApp on one configuration whose work interval is   *)
(*             a whole number of persistence periods;                      *)
(*   SpecLock  one LockScreen session in detail (attempt budget, lockout,  *)
(*             face scan, camera thread) on top of a locked BreakGuardApp; *)
(*   SpecTotp  TOTPAuth.verify_code over secrets, clock steps and codes    *)
(*             (src/src/totp_auth.py);                                     *)
(*   SpecBreak one LockScreen session with its break countdown and the     *)
(*             auto_unlock_after_break setting.                            *)
(*                                                                         *)
(* Scope of the translation.  Widget rendering, the tray icon and its      *)
(* blink animation, the Tinxy switch and the keyboard hook do not touch    *)
(* the modelled state and are left out.  Two statements of work_timer.py   *)
(* refer to names that the file never binds (self.icon_blink_timer, lines  *)
(* 211, 229, 254; QLineEdit, line 467); both belong to that widget layer   *)
(* and are taken to succeed without effect.  An exception that leaves a    *)
(* Qt slot ends the handler at that statement and the process goes on;     *)
(* the process ending instead is covered by the restart action.            *)
(***************************************************************************)
EXTENDS Integers, Sequences, FiniteSets, TLC

(***************************************************************************)
(* AppState (state_manager.py 17-24): enum members with auto() values.     *)
(***************************************************************************)
IDLE == 1
WORKING == 2
WARNING == 3
LOCKED == 4
PAUSED == 5
SETUP == 6
AppState == {IDLE, WORKING, WARNING, LOCKED, PAUSED, SETUP}

\* Python's None where an AppState is expected (previous_state).
None == 0

\* AppState.<member>.name
Name(st) ==
    CASE st = IDLE -> "IDLE"
      [] st = WORKING -> "WORKING"
      [] st = WARNING -> "WARNING"
      [] st = LOCKED -> "LOCKED"
      [] st = PAUSED -> "PAUSED"
      [] st = SETUP -> "SETUP"

AppStateNames == {Name(st) : st \in AppState}

\* AppState[name]; the caller checks membership first (KeyError otherwise).
AppStateByName(n) == CHOOSE st \in AppState : Name(st) = n

(***************************************************************************)
(* StateManager.VALID_TRANSITIONS (state_manager.py 36-43).                *)
(***************************************************************************)
VALID_TRANSITIONS_NoWarningWorking(st) ==
    CASE st = IDLE -> {WORKING, SETUP}
      [] st = WORKING -> {WARNING, PAUSED, IDLE}
      [] st = WARNING -> {LOCKED, IDLE}
      [] st = LOCKED -> {IDLE, WORKING}
      [] st = PAUSED -> {WORKING, IDLE}
      [] st = SETUP -> {IDLE, WORKING}

VALID_TRANSITIONS(st) ==
    CASE st = IDLE -> {WORKING, SETUP}
      [] st = WORKING -> {WARNING, PAUSED, IDLE}
      [] st = WARNING -> {LOCKED, WORKING, IDLE}
      [] st = LOCKED -> {IDLE, WORKING}
      [] st = PAUSED -> {WORKING, IDLE}
      [] st = SETUP -> {IDLE, WORKING}

(***************************************************************************)
(* Bounds of the StateManager specification.                               *)
(***************************************************************************)
\* values set_data stores are drawn from 0..MaxDataValue
MaxDataValue == 1
\* callbacks are registered for the states WORKING..(WORKING+NumCallbackStates-1)
NumCallbackStates == 2

DataKeys == {"time_remaining_seconds", "snooze_count"}
SMDataKeys == {"time_remaining_seconds"}
CallbackIds == {"cb1", "cb2"}
\* the callbacks that raise an Exception when they are called
RaisingCallbacks == {"cb2"}
CallbackStates == {st \in AppState : st >= WORKING /\ st < WORKING + NumCallbackStates}

VARIABLES
    \* ---- StateManager
    current_state,      \* _current_state
    previous_state,     \* _previous_state (None or an AppState)
    additional_data,    \* _additional_data: a function from keys to values
    state_callbacks,    \* _state_callbacks: AppState -> sequence of callbacks
    auto_persist,       \* _auto_persist
    state_file,         \* the content of app_state.json
    disk_ok,            \* whether a write of the state file succeeds
    last_op             \* the last StateManager call made directly: what it
                        \* was, how it ended, the callbacks it invoked

VARIABLES
    \* ---- BreakGuardApp
    config,                  \* self.config: the configuration values read here
    time_remaining_seconds,
    is_paused,
    is_locked,
    snooze_count,
    work_timer_active,       \* self.work_timer (1 s, periodic) is running
    tick_pending,            \* its timeout is due and not yet handled
    warning_timer,           \* self.warning_timer (single shot): seconds left, -1 when inactive
    lock_screen,             \* self.lock_screen: "unbound", "shown" or "closed"
    warning_dialog,          \* self.warning_dialog: "none", "shown" or "fading" (closing)
    dialog_can_snooze,       \* the dialog's Snooze button is enabled
    dialog_clicks,           \* Snooze clicks the current dialog has taken
    dialog_timer,            \* the dialog's close_timer: seconds left, -1 when inactive
    warnings_in_cycle,       \* history: _show_warning runs since the last start()
    started                  \* the launcher has called start() on this instance

VARIABLES
    \* ---- LockScreen (one instance: the one self.lock_screen refers to)
    attempts_remaining,
    lockout_count,
    otp_enabled,        \* the six otp_inputs and unlock_button are enabled
    scan_enabled,       \* scan_button is enabled
    current_tab,        \* the tab of auth_tabs in front: "totp", "face" or "none"
    camera_thread,      \* self.camera_thread is a running CameraThread (else None)
    current_frame,      \* self.current_frame: "none", or a frame the verifier
                        \* accepts ("match") or rejects ("nomatch")
    enable_timers,      \* pending singleShot(_enable_inputs): seconds left of each
    face_timers,        \* pending singleShot(_verify_face): seconds left of each
    unlock_pending,     \* a singleShot(500, _unlock) is pending
    lockout_left,       \* history: seconds left of the lockout selected last
    registered_faces,   \* FaceVerification.registered_faces: how many
    camera_workers,     \* CameraThread threads started and not finished
    break_remaining_seconds, \* self.break_remaining_seconds of the lock screen
    camera_pc           \* where CameraThread.run is: "none" (no thread),
                        \* "opening" (started, self.running not yet True),
                        \* "capturing" (in the loop), "stuck" (in the loop
                        \* with the GUI thread blocked in wait())

smVars == <<current_state, previous_state, additional_data, state_callbacks,
            auto_persist, state_file, disk_ok, last_op>>
appVars == <<config, time_remaining_seconds, is_paused, is_locked, snooze_count,
             work_timer_active, tick_pending, warning_timer, lock_screen,
             warning_dialog, dialog_can_snooze, dialog_clicks, dialog_timer,
             warnings_in_cycle, started>>
lockVars == <<attempts_remaining, lockout_count, otp_enabled, scan_enabled,
              current_tab, camera_thread, current_frame, enable_timers,
              face_timers, unlock_pending, lockout_left, registered_faces,
              camera_pc, camera_workers, break_remaining_seconds>>
vars == <<smVars, appVars, lockVars>>

(***************************************************************************)
(* The state file.  kind "absent": no file; "json": a document with the    *)
(* four keys save_state writes (the timestamp is written and only logged   *)
(* on load, lines 220 and 260; it is left out).                            *)
(***************************************************************************)
NoFile == [kind |-> "absent", current_state |-> "", previous_state |-> "",
           additional_data |-> <<>>]

\* The fields of the StateManager and of the BreakGuardApp that owns it,
\* gathered in a record so that methods compose.  raised: "" or the exception
\* that left the method; calls: the callbacks invoked; logged: those whose
\* exception was caught and logged; path: the states entered, in order;
\* loaded: load_state's return value.
SM == [current_state |-> current_state, previous_state |-> previous_state,
       additional_data |-> additional_data, state_file |-> state_file,
       raised |-> "", calls |-> <<>>, logged |-> <<>>, path |-> <<>>,
       loaded |-> FALSE,
       config |-> config,
       time_remaining_seconds |-> time_remaining_seconds,
       is_paused |-> is_paused, is_locked |-> is_locked,
       snooze_count |-> snooze_count,
       work_timer_active |-> work_timer_active, tick_pending |-> tick_pending,
       warning_timer |-> warning_timer, lock_screen |-> lock_screen,
       warning_dialog |-> warning_dialog, dialog_can_snooze |-> dialog_can_snooze,
       dialog_clicks |-> dialog_clicks, dialog_timer |-> dialog_timer,
       warnings_in_cycle |-> warnings_in_cycle]

\* A mutant of can_transition_to: every target is allowed.
can_transition_to_Always(cur, new_state) == new_state \in AppState

\* state_manager.py 79-88
can_transition_to(cur, new_state) == new_state \in VALID_TRANSITIONS(cur)

\* state_manager.py 157-166
is_state(s, st) == s.current_state = st

\* state_manager.py 195-205: dict.get(key, None)
get_data(s, key) ==
    IF key \in DOMAIN s.additional_data THEN s.additional_data[key] ELSE None

\* save_state without its try/except: a failing write raises
save_state_Raises(s) ==
    IF disk_ok
    THEN [s EXCEPT !.state_file =
             [kind |-> "json",
              current_state |-> Name(s.current_state),
              previous_state |-> IF s.previous_state # None
                                 THEN Name(s.previous_state) ELSE "null",
              additional_data |-> s.additional_data]]
    ELSE [s EXCEPT !.raised = "OSError"]

\* state_manager.py 207-232: the document written; a failing write is caught
\* and leaves the file as it was.
save_state(s) ==
    IF disk_ok
    THEN [s EXCEPT !.state_file =
             [kind |-> "json",
              current_state |-> Name(s.current_state),
              previous_state |-> IF s.previous_state # None
                                 THEN Name(s.previous_state) ELSE "null",
              additional_data |-> s.additional_data]]
    ELSE s

\* The loop without its try/except: the first exception leaves the loop
call_each_Propagates(s, callbacks) ==
    LET raising == {i \in 1..Len(callbacks) : callbacks[i] \in RaisingCallbacks}
    IN  IF raising = {}
        THEN [s EXCEPT !.calls = @ \o callbacks]
        ELSE LET first == CHOOSE i \in raising : \A j \in raising : i <= j
             IN  [s EXCEPT !.calls = @ \o SubSeq(callbacks, 1, first),
                           !.raised = "Exception"]

\* state_manager.py 151-155: the loop over the list.  Each callback is
\* called inside try/except Exception; what it raises is logged.
RECURSIVE call_each(_, _)
call_each(s, callbacks) ==
    IF callbacks = <<>> THEN s
    ELSE LET callback == Head(callbacks)
             s1 == [s EXCEPT !.calls = Append(@, callback)]
             s2 == IF callback \in RaisingCallbacks
                   THEN [s1 EXCEPT !.logged = Append(@, callback)]
                   ELSE s1
         IN  call_each(s2, Tail(callbacks))

\* _trigger_callbacks walking the list from its end
trigger_callbacks_Reversed(s, st) ==
    call_each(s, [i \in 1..Len(state_callbacks[st]) |->
                     state_callbacks[st][Len(state_callbacks[st]) + 1 - i]])

\* state_manager.py 145-155: every callback of the state, in list order.
trigger_callbacks(s, st) == call_each(s, state_callbacks[st])

\* A mutant of transition_to: the validity check is skipped.
transition_to_Unchecked(s, new_state, force) ==
    LET s1 == [s EXCEPT !.previous_state = s.current_state,
                        !.current_state = new_state,
                        !.path = Append(s.path, new_state)]
        s2 == IF auto_persist THEN save_state(s1) ELSE s1
    IN  trigger_callbacks(s2, new_state)

\* transition_to without the save of lines 115-116
transition_to_NoSave(s, new_state, force) ==
    IF ~force /\ ~can_transition_to(s.current_state, new_state)
    THEN [s EXCEPT !.raised = "StateTransitionError"]
    ELSE trigger_callbacks([s EXCEPT !.previous_state = s.current_state,
                                     !.current_state = new_state,
                                     !.path = Append(s.path, new_state)],
                           new_state)

\* state_manager.py 90-121
transition_to(s, new_state, force) ==
    IF ~force /\ ~can_transition_to(s.current_state, new_state)
    THEN [s EXCEPT !.raised = "StateTransitionError"]
    ELSE LET s1 == [s EXCEPT !.previous_state = s.current_state,
                             !.current_state = new_state,
                             !.path = Append(s.path, new_state)]
             s2 == IF auto_persist THEN save_state(s1) ELSE s1
         IN  trigger_callbacks(s2, new_state)

\* state_manager.py 184-193
set_data(s, key, value) ==
    LET s1 == [s EXCEPT !.additional_data = (key :> value) @@ s.additional_data]
    IN  IF auto_persist THEN save_state(s1) ELSE s1

\* state_manager.py 234-266.  The result carries loaded: the return value.
load_state(s) ==
    LET f == s.state_file
        r == [s EXCEPT !.loaded = FALSE]
    IN  IF f.kind # "json" THEN r
        ELSE IF f.current_state # "" /\ f.current_state \notin AppStateNames THEN r
        ELSE LET r1 == IF f.current_state # ""
                       THEN [r EXCEPT !.current_state = AppStateByName(f.current_state)]
                       ELSE r
             IN  IF f.previous_state \notin {"", "null"} /\ f.previous_state \notin AppStateNames
                 THEN r1
                 ELSE LET r2 == IF f.previous_state \notin {"", "null"}
                                THEN [r1 EXCEPT !.previous_state = AppStateByName(f.previous_state)]
                                ELSE r1
                      IN  [r2 EXCEPT !.additional_data = f.additional_data,
                                     !.loaded = TRUE]

\* state_manager.py 268-283
clear_state(s) ==
    [s EXCEPT !.state_file = NoFile, !.additional_data = <<>>]

\* The StateManager fields take the values of record s.
SMAssign(s) ==
    /\ current_state' = s.current_state
    /\ previous_state' = s.previous_state
    /\ additional_data' = s.additional_data
    /\ state_file' = s.state_file

(***************************************************************************)
(* SpecSM: a StateManager and its callers.                                 *)
(***************************************************************************)
NoOp == [op |-> "none", arg |-> None, force |-> FALSE, result |-> "",
         calls |-> <<>>, logged |-> <<>>, path |-> <<>>]

\* state_manager.py 45-67; auto_persist is the constructor's argument.  The
\* state directory is writable or it is not.
SMInit ==
    /\ current_state = IDLE
    /\ previous_state = None
    /\ additional_data = <<>>
    /\ state_callbacks = [st \in AppState |-> <<>>]
    /\ auto_persist \in BOOLEAN
    /\ state_file = NoFile
    /\ disk_ok \in BOOLEAN
    /\ last_op = NoOp
    \* the BreakGuardApp fields are not used by these specifications
    /\ config = [work_interval_minutes |-> 1, warning_before_minutes |-> 0,
                 max_snooze_count |-> 0, totp_enabled |-> TRUE,
                 face_verification_enabled |-> TRUE,
                 max_authentication_attempts |-> 5]
    /\ time_remaining_seconds = 0
    /\ is_paused = FALSE
    /\ is_locked = FALSE
    /\ snooze_count = 0
    /\ work_timer_active = FALSE
    /\ tick_pending = FALSE
    /\ warning_timer = -1
    /\ lock_screen = "unbound"
    /\ warning_dialog = "none"
    /\ dialog_can_snooze = FALSE
    /\ dialog_clicks = 0
    /\ dialog_timer = -1
    /\ warnings_in_cycle = 0
    /\ started = FALSE
    \* nor are the LockScreen fields
    /\ attempts_remaining = 0
    /\ lockout_count = 0
    /\ otp_enabled = FALSE
    /\ scan_enabled = FALSE
    /\ current_tab = "none"
    /\ camera_thread = FALSE
    /\ current_frame = "none"
    /\ enable_timers = {}
    /\ face_timers = {}
    /\ unlock_pending = FALSE
    /\ lockout_left = 0
    /\ registered_faces = 0
    /\ camera_pc = "none"
    /\ camera_workers = 0
    /\ break_remaining_seconds = 0

SM_transition_to(new_state, force) ==
    LET s == transition_to(SM, new_state, force)
    IN  /\ SMAssign(s)
        /\ last_op' = [op |-> "transition_to", arg |-> new_state, force |-> force,
                       result |-> IF s.raised # "" THEN s.raised ELSE "True",
                       calls |-> s.calls, logged |-> s.logged, path |-> s.path]
        /\ UNCHANGED <<state_callbacks, auto_persist, disk_ok, appVars, lockVars>>

\* state_manager.py 123-132
SM_register_callback(st, cb) ==
    /\ state_callbacks' =
          IF \E i \in 1..Len(state_callbacks[st]) : state_callbacks[st][i] = cb
          THEN state_callbacks
          ELSE [state_callbacks EXCEPT ![st] = Append(@, cb)]
    /\ last_op' = [NoOp EXCEPT !.op = "register_callback", !.arg = st]
    /\ UNCHANGED <<current_state, previous_state, additional_data, auto_persist,
                   state_file, disk_ok, appVars, lockVars>>

\* state_manager.py 134-143: list.remove drops the first occurrence.
SM_unregister_callback(st, cb) ==
    /\ state_callbacks' =
          [state_callbacks EXCEPT ![st] = SelectSeq(@, LAMBDA c : c # cb)]
    /\ last_op' = [NoOp EXCEPT !.op = "unregister_callback", !.arg = st]
    /\ UNCHANGED <<current_state, previous_state, additional_data, auto_persist,
                   state_file, disk_ok, appVars, lockVars>>

SM_set_data(key, value) ==
    LET s == set_data(SM, key, value)
    IN  /\ SMAssign(s)
        /\ last_op' = [NoOp EXCEPT !.op = "set_data", !.result = s.raised]
        /\ UNCHANGED <<state_callbacks, auto_persist, disk_ok, appVars, lockVars>>

SM_save_state ==
    /\ SMAssign(save_state(SM))
    /\ last_op' = [NoOp EXCEPT !.op = "save_state",
                               !.result = IF disk_ok THEN "True" ELSE "False"]
    /\ UNCHANGED <<state_callbacks, auto_persist, disk_ok, appVars, lockVars>>

SM_load_state ==
    LET s == load_state(SM)
    IN  /\ SMAssign(s)
        /\ last_op' = [NoOp EXCEPT !.op = "load_state",
                                   !.result = IF s.loaded THEN "True" ELSE "False"]
        /\ UNCHANGED <<state_callbacks, auto_persist, disk_ok, appVars, lockVars>>

SM_clear_state ==
    /\ SMAssign(clear_state(SM))
    /\ last_op' = [NoOp EXCEPT !.op = "clear_state", !.result = "True"]
    /\ UNCHANGED <<state_callbacks, auto_persist, disk_ok, appVars, lockVars>>

\* The environment: the disk starts or stops accepting writes.
DiskChanges ==
    /\ disk_ok' = ~disk_ok
    /\ last_op' = NoOp
    /\ UNCHANGED <<current_state, previous_state, additional_data,
                   state_callbacks, auto_persist, state_file, appVars, lockVars>>

\* SpecSM: transitions, callbacks and data; the disk accepts every write or
\* refuses every write.
SMNext ==
    \/ \E st \in AppState, force \in BOOLEAN : SM_transition_to(st, force)
    \/ \E st \in CallbackStates, cb \in CallbackIds : SM_register_callback(st, cb)
    \/ \E st \in CallbackStates, cb \in CallbackIds : SM_unregister_callback(st, cb)
    \/ \E k \in SMDataKeys, v \in 0..MaxDataValue : SM_set_data(k, v)

\* SpecPersist: no callbacks; the state file saved, loaded, cleared, and
\* writes that fail.
PersistNext ==
    \/ \E st \in AppState, force \in BOOLEAN : SM_transition_to(st, force)
    \/ \E k \in SMDataKeys, v \in 0..MaxDataValue : SM_set_data(k, v)
    \/ SM_save_state
    \/ SM_load_state
    \/ SM_clear_state
    \/ DiskChanges

(***************************************************************************)
(* Configuration (config_manager.py): the keys BreakGuardApp reads.        *)
(***************************************************************************)
\* Time scale.  The source counts 60 seconds to the minute
\* (config_manager.py 215 and 223, work_timer.py 233); a minute of the model
\* is SecondsPerMinute one-second ticks long, which keeps every duration that
\* the source states in minutes in proportion.
SecondsPerMinute == 2
\* work_timer.py 233: a snooze adds 5 minutes
SnoozeMinutes == 5
SnoozeSeconds == SnoozeMinutes * SecondsPerMinute
\* work_timer.py 172: persist when time_remaining_seconds % 10 == 0
PersistPeriod == 10

\* Bounds of the configuration values the model draws.
MaxIntervalMinutes == 2
MaxWarningMinutes == 1
MaxSnoozeLimit == 1
\* Snooze clicks one warning dialog takes before it has closed
MaxDialogClicks == 2
\* a warning time longer than a snooze, so that a snooze can end at or below
\* the warning threshold
LongWarningMinutes == 6

\* The lock screen's keys are at their defaults here (config_manager.py 36-37).
\* Every combination of the short values, and one configuration whose
\* warning time is the long one.
Configs ==
    [work_interval_minutes : 1..MaxIntervalMinutes,
     warning_before_minutes : 0..MaxWarningMinutes,
     max_snooze_count : 0..MaxSnoozeLimit,
     totp_enabled : {TRUE},
     face_verification_enabled : {TRUE},
     max_authentication_attempts : {5}]
    \cup
    [work_interval_minutes : {1},
     warning_before_minutes : {LongWarningMinutes},
     max_snooze_count : {MaxSnoozeLimit},
     totp_enabled : {TRUE},
     face_verification_enabled : {TRUE},
     max_authentication_attempts : {5}]

\* config_manager.py 209-215
get_work_interval_seconds(c) == c.work_interval_minutes * SecondsPerMinute
\* config_manager.py 217-223
get_warning_time_seconds(c) == c.warning_before_minutes * SecondsPerMinute

\* The BreakGuardApp fields take the values of record m.
AppAssign(m) ==
    /\ SMAssign(m)
    /\ config' = m.config
    /\ time_remaining_seconds' = m.time_remaining_seconds
    /\ is_paused' = m.is_paused
    /\ is_locked' = m.is_locked
    /\ snooze_count' = m.snooze_count
    /\ work_timer_active' = m.work_timer_active
    /\ tick_pending' = m.tick_pending
    /\ warning_timer' = m.warning_timer
    /\ lock_screen' = m.lock_screen
    /\ warning_dialog' = m.warning_dialog
    /\ dialog_can_snooze' = m.dialog_can_snooze
    /\ dialog_clicks' = m.dialog_clicks
    /\ dialog_timer' = m.dialog_timer
    /\ warnings_in_cycle' = m.warnings_in_cycle

\* What a handler leaves behind in last_op.
Done(name, m) ==
    [op |-> name, arg |-> None, force |-> FALSE, result |-> m.raised,
     calls |-> m.calls, logged |-> m.logged, path |-> m.path]

\* last_op after a handler that took the fields to m: a handler that
\* returned without changing anything leaves no trace.
Ran(name, m) == IF m = SM THEN last_op ELSE Done(name, m)

\* QTimer.start / QTimer.stop on the two timers
work_timer_start(m) == [m EXCEPT !.work_timer_active = TRUE, !.tick_pending = FALSE]
work_timer_stop(m) == [m EXCEPT !.work_timer_active = FALSE, !.tick_pending = FALSE]
warning_timer_start(m, delay) == [m EXCEPT !.warning_timer = delay]
warning_timer_stop(m) == [m EXCEPT !.warning_timer = -1]

\* A mutant of start: is_paused is left as it was.
start_KeepsPaused(m) ==
    LET m1 == [m EXCEPT !.time_remaining_seconds = get_work_interval_seconds(m.config),
                        !.snooze_count = 0,
                        !.warnings_in_cycle = 0]
        m2 == IF ~is_state(m1, WORKING) THEN transition_to(m1, WORKING, FALSE) ELSE m1
    IN  IF m2.raised # "" THEN m2
        ELSE LET m3 == set_data(m2, "time_remaining_seconds", m2.time_remaining_seconds)
                 m4 == set_data(m3, "snooze_count", m3.snooze_count)
                 warning_seconds == get_warning_time_seconds(m4.config)
                 m5 == IF warning_seconds > 0 /\ warning_seconds < m4.time_remaining_seconds
                       THEN warning_timer_start(m4, m4.time_remaining_seconds - warning_seconds)
                       ELSE m4
             IN  work_timer_start(m5)

\* work_timer.py 309-338
start(m) ==
    LET m1 == [m EXCEPT !.time_remaining_seconds = get_work_interval_seconds(m.config),
                        !.snooze_count = 0,
                        !.warnings_in_cycle = 0]
        m2 == IF ~is_state(m1, WORKING) THEN transition_to(m1, WORKING, FALSE) ELSE m1
    IN  IF m2.raised # "" THEN m2
        ELSE LET m3 == set_data(m2, "time_remaining_seconds", m2.time_remaining_seconds)
                 m4 == set_data(m3, "snooze_count", m3.snooze_count)
                 warning_seconds == get_warning_time_seconds(m4.config)
                 m5 == IF warning_seconds > 0 /\ warning_seconds < m4.time_remaining_seconds
                       THEN warning_timer_start(m4, m4.time_remaining_seconds - warning_seconds)
                       ELSE m4
             IN  work_timer_start([m5 EXCEPT !.is_paused = FALSE])

\* work_timer.py 248-285
trigger_lock(m) ==
    LET m1 == work_timer_stop([m EXCEPT !.is_locked = TRUE])
        m2 == IF ~is_state(m1, LOCKED) THEN transition_to(m1, LOCKED, FALSE) ELSE m1
    IN  IF m2.raised # "" THEN m2
        ELSE [m2 EXCEPT !.lock_screen = "shown"]

\* _on_timer_tick writing only the remaining time on a persisting tick
on_timer_tick_PersistsTimeOnly(m) ==
    IF m.is_paused \/ m.is_locked THEN m
    ELSE LET m1 == [m EXCEPT !.time_remaining_seconds = @ - 1]
             m2 == IF m1.time_remaining_seconds % PersistPeriod = 0
                   THEN set_data(m1, "time_remaining_seconds",
                                 m1.time_remaining_seconds)
                   ELSE m1
         IN  IF m2.time_remaining_seconds <= 0 THEN trigger_lock(m2) ELSE m2

\* work_timer.py 164-190
on_timer_tick(m) ==
    IF m.is_paused \/ m.is_locked THEN m
    ELSE LET m1 == [m EXCEPT !.time_remaining_seconds = @ - 1]
             m2 == IF m1.time_remaining_seconds % PersistPeriod = 0
                   THEN set_data(set_data(m1, "time_remaining_seconds",
                                          m1.time_remaining_seconds),
                                 "snooze_count", m1.snooze_count)
                   ELSE m1
         IN  IF m2.time_remaining_seconds <= 0 THEN trigger_lock(m2) ELSE m2

\* warning_dialog.py 14-118: a new dialog; its close timer runs for
\* minutes_remaining minutes.  It replaces the dialog shown before.
WarningDialog(m, minutes_remaining, can_snooze) ==
    [m EXCEPT !.warning_dialog = "shown",
              !.dialog_can_snooze = can_snooze,
              !.dialog_clicks = 0,
              !.dialog_timer = minutes_remaining * SecondsPerMinute]

\* warning_dialog.py 120-137: Snooze or accept starts the 300 ms fade-out
fade_out_and_close(m) == [m EXCEPT !.warning_dialog = "fading", !.dialog_timer = -1]

\* work_timer.py 192-222
show_warning(m) ==
    LET m0 == [m EXCEPT !.warnings_in_cycle = @ + 1]
        m1 == IF ~is_state(m0, WARNING) THEN transition_to(m0, WARNING, FALSE) ELSE m0
    IN  IF m1.raised # "" THEN m1
        ELSE WarningDialog(m1, m1.config.warning_before_minutes,
                           m1.snooze_count < m1.config.max_snooze_count)

\* _on_snooze re-arming the warning timer whatever the remaining time
on_snooze_AlwaysRearms(m) ==
    LET m1 == [m EXCEPT !.snooze_count = @ + 1,
                        !.time_remaining_seconds = @ + SnoozeSeconds]
        warning_seconds == get_warning_time_seconds(m1.config)
    IN  warning_timer_start(m1, m1.time_remaining_seconds - warning_seconds)

\* work_timer.py 224-246
on_snooze(m) ==
    LET m1 == [m EXCEPT !.snooze_count = @ + 1,
                        !.time_remaining_seconds = @ + SnoozeSeconds]
        warning_seconds == get_warning_time_seconds(m1.config)
    IN  IF m1.time_remaining_seconds > warning_seconds
        THEN warning_timer_start(m1, m1.time_remaining_seconds - warning_seconds)
        ELSE m1

\* _on_unlock without the stop in IDLE: straight to WORKING
on_unlock_SkipsIdle(m) ==
    LET m1 == [m EXCEPT !.is_locked = FALSE]
        m2 == IF ~is_state(m1, WORKING) THEN transition_to(m1, WORKING, FALSE) ELSE m1
    IN  IF m2.raised # "" THEN m2
        ELSE start(set_data(m2, "time_remaining_seconds", 0))

\* work_timer.py 287-307
on_unlock(m) ==
    LET m1 == [m EXCEPT !.is_locked = FALSE]
        m2 == IF ~is_state(m1, IDLE) THEN transition_to(m1, IDLE, FALSE) ELSE m1
    IN  IF m2.raised # "" THEN m2
        ELSE start(set_data(m2, "time_remaining_seconds", 0))

\* toggle_pause whose resume starts the work cycle afresh
toggle_pause_body_ResumeRestarts(m) ==
    IF m.is_locked THEN m
    ELSE IF m.is_paused
    THEN start(m)
    ELSE LET m1 == warning_timer_stop(work_timer_stop([m EXCEPT !.is_paused = TRUE]))
         IN  IF ~is_state(m1, PAUSED) THEN transition_to(m1, PAUSED, FALSE) ELSE m1

\* work_timer.py 340-361
toggle_pause_body(m) ==
    IF m.is_locked THEN m
    ELSE IF m.is_paused
    THEN LET m1 == work_timer_start([m EXCEPT !.is_paused = FALSE])
         IN  IF ~is_state(m1, WORKING) THEN transition_to(m1, WORKING, FALSE) ELSE m1
    ELSE LET m1 == warning_timer_stop(work_timer_stop([m EXCEPT !.is_paused = TRUE]))
         IN  IF ~is_state(m1, PAUSED) THEN transition_to(m1, PAUSED, FALSE) ELSE m1

\* A mutant of quick_change_interval: the restart does not look at is_locked.
quick_change_interval_IgnoresLock(m, minutes) ==
    LET m1 == [m EXCEPT !.config.work_interval_minutes = minutes]
    IN  IF ~m1.is_paused THEN start(m1) ELSE m1

\* work_timer.py 363-381
quick_change_interval(m, minutes) ==
    LET m1 == [m EXCEPT !.config.work_interval_minutes = minutes]
    IN  IF ~m1.is_paused /\ ~m1.is_locked THEN start(m1) ELSE m1

\* work_timer.py 421-440: the configuration is read again from disk
on_settings_changed(m, c) ==
    LET m1 == [m EXCEPT !.config = c]
    IN  IF ~m1.is_locked
        THEN start(warning_timer_stop(work_timer_stop(m1)))
        ELSE m1

\* work_timer.py 449-495; code_ok: TOTPAuth.verify_code accepts the code typed
skip_break(m, code_ok) ==
    IF ~m.is_locked THEN m
    ELSE IF ~code_ok THEN m
    ELSE IF m.lock_screen = "unbound" THEN [m EXCEPT !.raised = "AttributeError"]
    ELSE on_unlock([m EXCEPT !.lock_screen = "closed"])

\* work_timer.py 29-68: the constructor, on the state file it finds
app_init(file, c) ==
    LET m0 == [current_state |-> IDLE, previous_state |-> None,
               additional_data |-> <<>>, state_file |-> file,
               raised |-> "", calls |-> <<>>, logged |-> <<>>, path |-> <<>>,
               loaded |-> FALSE,
               config |-> c, time_remaining_seconds |-> 0,
               is_paused |-> FALSE, is_locked |-> FALSE, snooze_count |-> 0,
               work_timer_active |-> FALSE, tick_pending |-> FALSE,
               warning_timer |-> -1, lock_screen |-> "unbound",
               warning_dialog |-> "none", dialog_can_snooze |-> FALSE,
               dialog_clicks |-> 0, dialog_timer |-> -1,
               warnings_in_cycle |-> 0]
        m1 == load_state(m0)
        saved_time == get_data(m1, "time_remaining_seconds")
        saved_snooze == get_data(m1, "snooze_count")
    IN  IF ~m1.loaded THEN m1
        ELSE [m1 EXCEPT !.time_remaining_seconds =
                            IF "time_remaining_seconds" \in DOMAIN m1.additional_data
                            THEN saved_time ELSE @,
                        !.snooze_count =
                            IF "snooze_count" \in DOMAIN m1.additional_data
                            THEN saved_snooze ELSE @]

(***************************************************************************)
(* SpecSM                                                                  *)
(***************************************************************************)
SpecSM == SMInit /\ [][SMNext]_vars

SpecPersist == SMInit /\ [][PersistNext]_vars

(***************************************************************************)
(* Claims about StateManager (SpecSM).                                     *)
(***************************************************************************)

\* C1: a non-forced transition_to(new_state) with new_state outside
\* VALID_TRANSITIONS[current_state] raises StateTransitionError, leaves
\* current_state, previous_state, additional_data and the state file as they
\* were, and invokes no callback.
C1_RejectedTransitionChangesNothing ==
    [][\A st \in AppState :
          (SM_transition_to(st, FALSE) /\ st \notin VALID_TRANSITIONS(current_state))
          => /\ last_op'.result = "StateTransitionError"
             /\ last_op'.calls = <<>>
             /\ UNCHANGED <<current_state, previous_state, additional_data,
                            state_file>>]_vars

\* A rejected call made with data stored, a snapshot on disk and a callback
\* registered for the refused target.
C1_Witness ==
    /\ last_op.op = "transition_to"
    /\ ~last_op.force
    /\ last_op.result = "StateTransitionError"
    /\ state_callbacks[last_op.arg] # <<>>
    /\ state_file.kind = "json"
    /\ additional_data # <<>>

\* The 14 edges the specification lists.
ListedEdges ==
    {<<IDLE, WORKING>>, <<IDLE, SETUP>>,
     <<WORKING, WARNING>>, <<WORKING, PAUSED>>, <<WORKING, IDLE>>,
     <<WARNING, LOCKED>>, <<WARNING, WORKING>>, <<WARNING, IDLE>>,
     <<LOCKED, IDLE>>, <<LOCKED, WORKING>>,
     <<PAUSED, WORKING>>, <<PAUSED, IDLE>>,
     <<SETUP, IDLE>>, <<SETUP, WORKING>>}

\* C2: a non-forced transition_to(to) issued in state from succeeds exactly
\* when (from, to) is one of the 14 listed edges.  After a success the edge
\* taken is (previous_state, current_state); after a rejection the edge
\* refused is (current_state, argument).
C2_ExactlyTheListedEdges ==
    (last_op.op = "transition_to" /\ ~last_op.force)
    => /\ last_op.result \in {"True", "StateTransitionError"}
       /\ last_op.result = "True"
            => current_state = last_op.arg
               /\ <<previous_state, current_state>> \in ListedEdges
       /\ last_op.result = "StateTransitionError"
            => <<current_state, last_op.arg>> \notin ListedEdges

\* The edge WARNING -> WORKING taken without force.
C2_Witness ==
    /\ last_op.op = "transition_to"
    /\ ~last_op.force
    /\ last_op.result = "True"
    /\ previous_state = WARNING
    /\ current_state = WORKING

(***************************************************************************)
(* Spec: BreakGuardApp.  Every handler runs to its end or to the statement *)
(* that raises; the lock screen appears only as the unlocked signal.       *)
(***************************************************************************)
AppFrame == UNCHANGED <<state_callbacks, auto_persist, disk_ok, lockVars>>

\* The process starts: BreakGuardApp() on the state file it finds.
Constructed(file, c) ==
    LET m == app_init(file, c)
    IN  /\ AppAssign(m)
        /\ started' = FALSE
        /\ last_op' = Done("__init__", m)

AppInit ==
    /\ state_callbacks = [st \in AppState |-> <<>>]
    /\ auto_persist = TRUE
    /\ disk_ok = TRUE
    \* the LockScreen is not looked into by this specification
    /\ attempts_remaining = 0
    /\ lockout_count = 0
    /\ otp_enabled = FALSE
    /\ scan_enabled = FALSE
    /\ current_tab = "none"
    /\ camera_thread = FALSE
    /\ current_frame = "none"
    /\ enable_timers = {}
    /\ face_timers = {}
    /\ unlock_pending = FALSE
    /\ lockout_left = 0
    /\ registered_faces = 0
    /\ camera_pc = "none"
    /\ camera_workers = 0
    /\ break_remaining_seconds = 0
    /\ \E c \in Configs :
          LET m == app_init(NoFile, c)
          IN  /\ current_state = m.current_state
              /\ previous_state = m.previous_state
              /\ additional_data = m.additional_data
              /\ state_file = m.state_file
              /\ config = m.config
              /\ time_remaining_seconds = m.time_remaining_seconds
              /\ is_paused = m.is_paused
              /\ is_locked = m.is_locked
              /\ snooze_count = m.snooze_count
              /\ work_timer_active = m.work_timer_active
              /\ tick_pending = m.tick_pending
              /\ warning_timer = m.warning_timer
              /\ lock_screen = m.lock_screen
              /\ warning_dialog = m.warning_dialog
              /\ dialog_can_snooze = m.dialog_can_snooze
              /\ dialog_clicks = m.dialog_clicks
              /\ dialog_timer = m.dialog_timer
              /\ warnings_in_cycle = m.warnings_in_cycle
              /\ started = FALSE
              /\ last_op = Done("__init__", m)

\* The process ends (crash, exit_app, reboot) and is started again.
Restart ==
    /\ Constructed(state_file, config)
    /\ AppFrame

\* The launcher calls start() on the instance it constructed.  The tray
\* menu exists from construction on (work_timer.py 68): Pause Timer can be
\* chosen at once, the other entries are taken once the work cycle runs.
Launch ==
    /\ ~started
    /\ LET m == start(SM)
       IN  AppAssign(m) /\ last_op' = Done("start", m)
    /\ started' = TRUE
    /\ AppFrame

\* One second of wall-clock time: the running timers advance.  A timeout
\* that is due is handled, and a fade-out (300 ms) ends, before more time
\* passes.
SecondPasses ==
    /\ ~tick_pending
    /\ warning_timer # 0
    /\ dialog_timer # 0
    /\ warning_dialog # "fading"
    /\ work_timer_active \/ warning_timer > 0 \/ dialog_timer > 0
    /\ tick_pending' = work_timer_active
    /\ warning_timer' = IF warning_timer > 0 THEN warning_timer - 1 ELSE warning_timer
    /\ dialog_timer' = IF dialog_timer > 0 THEN dialog_timer - 1 ELSE dialog_timer
    /\ UNCHANGED <<current_state, previous_state, additional_data, state_file,
                   config, time_remaining_seconds, is_paused, is_locked,
                   snooze_count, work_timer_active, lock_screen, warning_dialog,
                   dialog_can_snooze, dialog_clicks, warnings_in_cycle, started,
                   last_op>>
    /\ AppFrame

\* work_timer.timeout -> _on_timer_tick
Tick ==
    /\ tick_pending
    /\ LET m == on_timer_tick([SM EXCEPT !.tick_pending = FALSE])
       IN  AppAssign(m) /\ last_op' = Ran("_on_timer_tick", m)
    /\ UNCHANGED started
    /\ AppFrame

\* warning_timer.timeout -> _show_warning (single shot)
Warn ==
    /\ warning_timer = 0
    /\ LET m == show_warning([SM EXCEPT !.warning_timer = -1])
       IN  AppAssign(m) /\ last_op' = Done("_show_warning", m)
    /\ UNCHANGED started
    /\ AppFrame

\* The Snooze button: snooze_requested -> _on_snooze, then the dialog
\* starts to fade out (warning_dialog.py 120-123); it takes clicks until it
\* has closed.
Snooze ==
    /\ warning_dialog \in {"shown", "fading"}
    /\ dialog_can_snooze
    /\ dialog_clicks < MaxDialogClicks
    /\ LET m == fade_out_and_close(on_snooze([SM EXCEPT !.dialog_clicks = @ + 1]))
       IN  AppAssign(m) /\ last_op' = Done("_on_snooze", m)
    /\ UNCHANGED started
    /\ AppFrame

\* The OK button, or the dialog's close timer: accept (warning_dialog.py
\* 101-104, 125-127)
DialogAccept ==
    /\ warning_dialog = "shown"
    /\ AppAssign(fade_out_and_close(SM))
    /\ UNCHANGED <<started, last_op>>
    /\ AppFrame

\* The fade-out has finished: the dialog is closed (warning_dialog.py 129-137)
DialogCloses ==
    /\ warning_dialog = "fading"
    /\ AppAssign([SM EXCEPT !.warning_dialog = "none", !.dialog_can_snooze = FALSE,
                            !.dialog_clicks = 0])
    /\ UNCHANGED <<started, last_op>>
    /\ AppFrame

\* tray: Pause Timer / Resume Timer
TogglePause ==
    /\ LET m == toggle_pause_body(SM)
       IN  AppAssign(m) /\ last_op' = Ran("toggle_pause", m)
    /\ UNCHANGED started
    /\ AppFrame

\* tray: Quick Settings
QuickChangeInterval(minutes) ==
    /\ started
    /\ LET m == quick_change_interval(SM, minutes)
       IN  AppAssign(m) /\ last_op' = Ran("_quick_change_interval", m)
    /\ UNCHANGED started
    /\ AppFrame

\* The configurations one save of the settings window leads to: at most
\* one of the timer's settings is edited per save.
TimerKeys == {"work_interval_minutes", "warning_before_minutes", "max_snooze_count"}
SavedConfigs ==
    {c \in Configs : Cardinality({k \in TimerKeys : c[k] # config[k]}) <= 1}

\* settings_saved / setup_completed -> _on_settings_changed
SettingsChanged(c) ==
    /\ started
    /\ LET m == on_settings_changed(SM, c)
       IN  AppAssign(m) /\ last_op' = Ran("_on_settings_changed", m)
    /\ UNCHANGED started
    /\ AppFrame

\* lock_screen.unlocked -> _on_unlock; the lock screen then closes itself
\* (lock_screen_pyqt.py 603-604).
Unlocked ==
    /\ lock_screen = "shown"
    /\ LET m == on_unlock(SM)
       IN  AppAssign([m EXCEPT !.lock_screen = "closed"])
           /\ last_op' = Done("_on_unlock", m)
    /\ UNCHANGED started
    /\ AppFrame

\* tray: Skip Current Break
SkipBreak(code_ok) ==
    /\ started
    /\ LET m == skip_break(SM, code_ok)
       IN  AppAssign(m) /\ last_op' = Ran("_skip_break", m)
    /\ UNCHANGED started
    /\ AppFrame

Next ==
    \/ Restart
    \/ Launch
    \/ SecondPasses
    \/ Tick
    \/ Warn
    \/ Snooze
    \/ DialogAccept
    \/ DialogCloses
    \/ TogglePause
    \/ \E minutes \in 1..MaxIntervalMinutes : QuickChangeInterval(minutes)
    \/ \E c \in SavedConfigs : SettingsChanged(c)
    \/ Unlocked
    \/ \E code_ok \in BOOLEAN : SkipBreak(code_ok)

Spec == AppInit /\ [][Next]_vars

(***************************************************************************)
(* Claims about BreakGuardApp (Spec)                                       *)
(***************************************************************************)
\* The last handler that ran was a timer tick that counted
\* time_remaining_seconds down to 0 or below.
TickReachedZero ==
    /\ last_op.op = "_on_timer_tick"
    /\ time_remaining_seconds <= 0

\* C3: whenever a timer tick brings time_remaining_seconds to 0 or below,
\* ticking has stopped and, at the end of that tick, the state machine is in
\* LOCKED and the lock screen is shown, whatever the configuration and
\* whatever start, pause/resume, snooze and interval changes came before.
C3_TickToZeroLocks ==
    TickReachedZero =>
        /\ ~work_timer_active
        /\ current_state = LOCKED
        /\ lock_screen = "shown"

\* C4: in one work cycle started by start() the warning fires exactly once
\* and strictly before the lock: when the tick that counts
\* time_remaining_seconds down to 0 fires the lock, _show_warning has run
\* exactly once since start().
C4_OneWarningBeforeLock ==
    TickReachedZero => warnings_in_cycle = 1

RecoveredExpired ==
    /\ ~started
    /\ last_op.op = "__init__"
    /\ state_file.kind = "json"
    /\ state_file.current_state \in {Name(WORKING), Name(WARNING)}
    /\ "time_remaining_seconds" \in DOMAIN state_file.additional_data
    /\ state_file.additional_data["time_remaining_seconds"] <= 0
    /\ current_state \in {WORKING, WARNING}
    /\ time_remaining_seconds <= 0

\* C10: when the application starts on a snapshot with current_state WORKING
\* or WARNING whose work interval has already run out, the recovered session
\* does not begin a fresh full work interval: it is locked, or about to be,
\* with no time left to work.
C10_ExpiredSessionLocksOnRecovery ==
    [][Launch /\ RecoveredExpired =>
          \/ is_locked'
          \/ time_remaining_seconds' <= 1]_vars

(***************************************************************************)
(* LockScreen (lock_screen_pyqt.py).  A widget exists only if the tab that *)
(* creates it was built (_setup_ui 184-195): otp_inputs, unlock_button,    *)
(* clear_button, loading_label and loading_spinner_timer with the TOTP     *)
(* tab, scan_button, camera_label and face_loading_label with the face     *)
(* tab.  Reaching for a missing one raises AttributeError.                 *)
(***************************************************************************)
\* lock_screen_pyqt.py 82 and 641: the attempt budget
InitialAttempts == 5
\* lock_screen_pyqt.py 455: lockout_times = [60, 300, 900] seconds, in minutes
LockoutMinutes == <<1, 5, 15>>
\* lock_screen_pyqt.py 537: the lockout after failed face checks, in minutes
FaceLockoutMinutes == 1
\* lock_screen_pyqt.py 489: the face check runs 3000 ms after the scan
\* started, which is the next tick of the model's clock
FaceScanDelay == 1

\* config_manager.py 35 sets break_duration_minutes to 5; the model's break
\* lasts the shortest duration the settings allow (config_manager.py 25)
BreakMinutes == 1

\* Bounds of a lock screen session.
\* wrong codes are typed until lockout_count has reached MaxLockouts
MaxLockouts == 3
\* face scans are started until attempts_remaining is minus MaxOverdraw
MaxOverdraw == 1

\* The configurations a LockScreen is constructed with.  The lock screen
\* never reads max_authentication_attempts (its budget is the literal at
\* line 82), so one configured value other than that literal stands for all.
LockConfigs == [work_interval_minutes : {2},
                warning_before_minutes : {1},
                max_snooze_count : {1},
                totp_enabled : BOOLEAN,
                face_verification_enabled : BOOLEAN,
                max_authentication_attempts : {3}]

\* What can be typed into the six boxes, and TOTPAuth.verify_code on it
\* (totp_auth.py 223-245)
\* "incomplete": fewer than six boxes filled; "nondigit": six characters,
\* one of them not a decimal digit (the boxes take any character,
\* lock_screen_pyqt.py 246-260); "wrong", "right": six decimal digits.
Codes == {"incomplete", "nondigit", "wrong", "right"}
verify_code(code) == code = "right"
\* FaceVerification.verify_face on a frame (face_verification.py 199-229)
Frames == {"match", "nomatch"}
\* "match": a face is detected in the frame and it correlates with a
\* registered one above the threshold.
MaxRegisteredFaces == 1
verify_face_frame(faces, frame) ==
    IF faces = 0 THEN TRUE ELSE frame = "match"

\* The fields of the LockScreen, gathered in a record.  raised: "" or the
\* exception that left the handler; evaluated: codes and frames handed to
\* a verifier; selected: the lockout duration chosen, 0 if none; emitted:
\* the unlocked signal went out; input: the code read from the six boxes.
LS == [config |-> config, attempts_remaining |-> attempts_remaining,
       lockout_count |-> lockout_count, otp_enabled |-> otp_enabled,
       scan_enabled |-> scan_enabled, current_tab |-> current_tab,
       camera_thread |-> camera_thread, current_frame |-> current_frame,
       enable_timers |-> enable_timers, face_timers |-> face_timers,
       unlock_pending |-> unlock_pending, lockout_left |-> lockout_left,
       registered_faces |-> registered_faces, camera_pc |-> camera_pc,
       camera_workers |-> camera_workers,
       break_remaining_seconds |-> break_remaining_seconds,
       raised |-> "", evaluated |-> 0, selected |-> 0, emitted |-> FALSE,
       input |-> "none"]

\* lock_screen_pyqt.py 186-189 and 192-195
HasTotpTab(l) == l.config.totp_enabled
HasFaceTab(l) == l.config.face_verification_enabled

Max(a, b) == IF a >= b THEN a ELSE b
Min(a, b) == IF a <= b THEN a ELSE b

\* History: the attempt budget is exhausted and a lockout of `seconds` is
\* selected (lock_screen_pyqt.py 451-456, 535-537).
lockout_selected(l, seconds) ==
    [l EXCEPT !.selected = seconds,
              !.lockout_left = Max(@, seconds)]

\* The lockout table in the model's seconds: entry min(lockout_count-1, 2)
\* (lock_screen_pyqt.py 455-456)
lockout_duration(count) ==
    LockoutMinutes[Min(count - 1, Len(LockoutMinutes) - 1) + 1] * SecondsPerMinute

\* lock_screen_pyqt.py 543-553 with CameraThread.stop (47-51) and run
\* (35-45).  stop() clears self.running and releases self.camera if it is
\* set; wait() returns when run() has returned.  A run() that has not yet
\* reached `self.running = True` (38-39) sets it after stop() has cleared it
\* and loops for ever: wait() never returns and the handler with it.
stop_camera(l) ==
    IF l.camera_thread /\ l.camera_pc = "opening"
    THEN [l EXCEPT !.camera_pc = "stuck", !.raised = "blocked"]
    ELSE LET l1 == IF l.camera_thread
                   THEN [l EXCEPT !.camera_thread = FALSE, !.camera_pc = "none",
                                  !.camera_workers = @ - 1]
                   ELSE l
         IN  IF ~HasFaceTab(l1) THEN [l1 EXCEPT !.raised = "AttributeError"]
             ELSE [l1 EXCEPT !.scan_enabled = TRUE]

\* lock_screen_pyqt.py 625-633
disable_inputs(l, seconds) ==
    IF ~HasTotpTab(l) THEN [l EXCEPT !.raised = "AttributeError"]
    ELSE LET l1 == [l EXCEPT !.otp_enabled = FALSE]
         IN  IF ~HasFaceTab(l1) THEN [l1 EXCEPT !.raised = "AttributeError"]
             ELSE [l1 EXCEPT !.scan_enabled = FALSE,
                             !.enable_timers = @ \cup {seconds}]

\* lock_screen_pyqt.py 635-642
enable_inputs(l) ==
    IF ~HasTotpTab(l) THEN [l EXCEPT !.raised = "AttributeError"]
    ELSE LET l1 == [l EXCEPT !.otp_enabled = TRUE]
         IN  IF ~HasFaceTab(l1) THEN [l1 EXCEPT !.raised = "AttributeError"]
             ELSE [l1 EXCEPT !.scan_enabled = TRUE,
                             !.attempts_remaining = InitialAttempts]

\* lock_screen_pyqt.py 418-475; the handler runs when the sixth box is
\* filled (typed or pasted, 358-375, 390-398) or Unlock is clicked.
verify_totp(l, code) ==
    IF code = "incomplete" THEN [l EXCEPT !.input = code]
    ELSE LET l1 == [l EXCEPT !.input = code, !.otp_enabled = FALSE,
                             !.evaluated = @ + 1]
         IN  IF verify_code(code) THEN [l1 EXCEPT !.unlock_pending = TRUE]
             ELSE LET l2 == [l1 EXCEPT !.otp_enabled = TRUE,
                                       !.attempts_remaining = @ - 1]
                  IN  IF l2.attempts_remaining <= 0
                      THEN LET l3 == [l2 EXCEPT !.lockout_count = @ + 1]
                               seconds == lockout_duration(l3.lockout_count)
                           IN  disable_inputs(lockout_selected(l3, seconds), seconds)
                      ELSE l2

\* _start_face_scan without the test of self.camera_thread
start_face_scan_Unguarded(l) ==
    [l EXCEPT !.camera_thread = TRUE,
              !.camera_pc = "opening",
              !.camera_workers = @ + 1,
              !.scan_enabled = FALSE,
              !.face_timers = @ \cup {FaceScanDelay}]

\* lock_screen_pyqt.py 477-489
start_face_scan(l) ==
    IF ~l.camera_thread
    THEN [l EXCEPT !.camera_thread = TRUE,
                   !.camera_pc = "opening",
                   !.camera_workers = @ + 1,
                   !.scan_enabled = FALSE,
                   !.face_timers = @ \cup {FaceScanDelay}]
    ELSE l

\* lock_screen_pyqt.py 491-511
on_camera_frame(l, frame) == [l EXCEPT !.current_frame = frame]

\* lock_screen_pyqt.py 513-541
verify_face(l) ==
    IF ~HasTotpTab(l) THEN [l EXCEPT !.raised = "AttributeError"]
    ELSE IF l.current_frame = "none" THEN stop_camera(l)
    ELSE LET l1 == [l EXCEPT !.evaluated = @ + 1]
         IN  IF verify_face_frame(l1.registered_faces, l1.current_frame)
             THEN LET l2 == stop_camera(l1)
                  IN  IF l2.raised # "" THEN l2 ELSE [l2 EXCEPT !.unlock_pending = TRUE]
             ELSE LET l2 == [l1 EXCEPT !.attempts_remaining = @ - 1]
                      seconds == FaceLockoutMinutes * SecondsPerMinute
                      l3 == IF l2.attempts_remaining <= 0
                            THEN disable_inputs(lockout_selected(l2, seconds), seconds)
                            ELSE l2
                  IN  IF l3.raised # "" THEN l3 ELSE stop_camera(l3)

\* lock_screen_pyqt.py 612-623
on_tab_changed(l, tab) ==
    LET l1 == [l EXCEPT !.current_tab = tab]
    IN  IF tab # "face" THEN stop_camera(l1) ELSE l1

\* lock_screen_pyqt.py 594-604 up to the emit: _show_loading(False) needs
\* loading_label (570-582), _stop_camera needs scan_button
unlock(l) ==
    IF ~HasTotpTab(l) THEN [l EXCEPT !.raised = "AttributeError"]
    ELSE LET l1 == stop_camera(l)
         IN  IF l1.raised # "" THEN l1 ELSE [l1 EXCEPT !.emitted = TRUE]

(***************************************************************************)
(* SpecLock: one LockScreen session.  BreakGuardApp has locked after a     *)
(* warned work cycle and constructed the LockScreen (work_timer.py 268,    *)
(* lock_screen_pyqt.py 58-114); the session ends when the screen closes.   *)
(***************************************************************************)
LsAssign(l) ==
    /\ attempts_remaining' = l.attempts_remaining
    /\ lockout_count' = l.lockout_count
    /\ otp_enabled' = l.otp_enabled
    /\ scan_enabled' = l.scan_enabled
    /\ current_tab' = l.current_tab
    /\ camera_thread' = l.camera_thread
    /\ current_frame' = l.current_frame
    /\ enable_timers' = l.enable_timers
    /\ face_timers' = l.face_timers
    /\ unlock_pending' = l.unlock_pending
    /\ lockout_left' = l.lockout_left
    /\ registered_faces' = l.registered_faces
    /\ camera_pc' = l.camera_pc
    /\ camera_workers' = l.camera_workers
    /\ break_remaining_seconds' = l.break_remaining_seconds

\* What a handler of the lock screen leaves behind in last_op, until the
\* clock moves on.  in_lockout: a lockout was running when the handler
\* began; count_before, attempts_before, camera_before: lockout_count,
\* attempts_remaining and camera_thread at that moment.
LsDone(name, l) ==
    [op |-> name, result |-> l.raised, evaluated |-> l.evaluated,
     selected |-> l.selected, emitted |-> l.emitted,
     in_lockout |-> lockout_left > 0, count_before |-> lockout_count,
     attempts_before |-> attempts_remaining, input |-> l.input,
     camera_before |-> camera_thread]

LsIdle ==
    [op |-> "none", result |-> "", evaluated |-> 0, selected |-> 0,
     emitted |-> FALSE, in_lockout |-> FALSE, count_before |-> 0,
     attempts_before |-> 0, input |-> "none", camera_before |-> FALSE]

\* The application's side stays as it is.
LsFrame ==
    UNCHANGED <<current_state, previous_state, additional_data, state_callbacks,
                auto_persist, state_file, disk_ok, appVars>>

LockInit ==
    /\ current_state = LOCKED
    /\ previous_state = WARNING
    /\ additional_data = [time_remaining_seconds |-> 0, snooze_count |-> 0]
    /\ state_callbacks = [st \in AppState |-> <<>>]
    /\ auto_persist = TRUE
    /\ state_file = [kind |-> "json", current_state |-> Name(LOCKED),
                     previous_state |-> Name(WARNING),
                     additional_data |-> [time_remaining_seconds |-> 0,
                                          snooze_count |-> 0]]
    /\ disk_ok = TRUE
    /\ config \in LockConfigs
    /\ time_remaining_seconds = 0
    /\ is_paused = FALSE
    /\ is_locked = TRUE
    /\ snooze_count = 0
    /\ work_timer_active = FALSE
    /\ tick_pending = FALSE
    /\ warning_timer = -1
    /\ lock_screen = "shown"
    /\ warning_dialog = "none"
    /\ dialog_can_snooze = FALSE
    /\ dialog_clicks = 0
    /\ dialog_timer = -1
    /\ warnings_in_cycle = 1
    /\ started = TRUE
    /\ attempts_remaining = InitialAttempts
    /\ lockout_count = 0
    /\ otp_enabled = TRUE
    /\ scan_enabled = TRUE
    /\ current_tab = IF config.totp_enabled THEN "totp"
                     ELSE IF config.face_verification_enabled THEN "face"
                     ELSE "none"
    /\ camera_thread = FALSE
    /\ current_frame = "none"
    /\ enable_timers = {}
    /\ face_timers = {}
    /\ unlock_pending = FALSE
    /\ lockout_left = 0
    /\ registered_faces \in 0..MaxRegisteredFaces
    /\ camera_pc = "none"
    /\ camera_workers = 0
    /\ break_remaining_seconds = BreakMinutes * SecondsPerMinute
    /\ last_op = LsIdle

\* One second of wall-clock time on the lock screen.  A timeout that is due
\* is handled first; the 500 ms before _unlock are shorter than a second.
\* The lock screen is up and its GUI thread is serving events.
LsShown == lock_screen = "shown" /\ camera_pc # "stuck"

LsSecondPasses ==
    /\ LsShown
    /\ ~unlock_pending
    /\ 0 \notin enable_timers \cup face_timers
    /\ enable_timers \cup face_timers # {} \/ lockout_left > 0
    /\ enable_timers' = {s - 1 : s \in enable_timers}
    /\ face_timers' = {s - 1 : s \in face_timers}
    /\ lockout_left' = IF lockout_left > 0 THEN lockout_left - 1 ELSE 0
    /\ UNCHANGED <<attempts_remaining, lockout_count, otp_enabled, scan_enabled,
                   current_tab, camera_thread, current_frame, unlock_pending,
                   registered_faces, camera_pc, camera_workers,
                   break_remaining_seconds>>
    /\ last_op' = LsIdle
    /\ LsFrame

\* A code is in the six boxes and submitted: the boxes take input only
\* while enabled and in front.
LsVerifyTotp(code) ==
    /\ LsShown
    /\ HasTotpTab(LS) /\ current_tab = "totp" /\ otp_enabled
    /\ code \in {"nondigit", "wrong"} => lockout_count < MaxLockouts
    /\ LET l == verify_totp(LS, code)
       IN  LsAssign(l) /\ last_op' = LsDone("_verify_totp", l)
    /\ LsFrame

\* scan_button.clicked -> _start_face_scan
LsStartFaceScan ==
    /\ LsShown
    /\ HasFaceTab(LS) /\ current_tab = "face" /\ scan_enabled
    /\ attempts_remaining > -MaxOverdraw
    /\ LET l == start_face_scan(LS)
       IN  LsAssign(l) /\ last_op' = LsDone("_start_face_scan", l)
    /\ LsFrame

\* CameraThread.run has opened the device and set self.running (38-39)
LsCameraOpens ==
    /\ LsShown
    /\ camera_pc = "opening"
    /\ LsAssign([LS EXCEPT !.camera_pc = "capturing"])
    /\ UNCHANGED last_op
    /\ LsFrame

\* camera_thread.frame_ready -> _on_camera_frame
LsCameraFrame(frame) ==
    /\ LsShown
    /\ camera_thread /\ camera_pc = "capturing"
    /\ LET l == on_camera_frame(LS, frame)
       IN  LsAssign(l) /\ UNCHANGED last_op
    /\ LsFrame

\* singleShot(3000) -> _verify_face
LsVerifyFace ==
    /\ LsShown
    /\ 0 \in face_timers
    /\ LET l == verify_face([LS EXCEPT !.face_timers = @ \ {0}])
       IN  LsAssign(l) /\ last_op' = LsDone("_verify_face", l)
    /\ LsFrame

\* singleShot(seconds * 1000) -> _enable_inputs
LsEnableInputs ==
    /\ LsShown
    /\ 0 \in enable_timers
    /\ LET l == enable_inputs([LS EXCEPT !.enable_timers = @ \ {0}])
       IN  LsAssign(l) /\ last_op' = LsDone("_enable_inputs", l)
    /\ LsFrame

\* auth_tabs.currentChanged -> _on_tab_changed
LsTabChanged(tab) ==
    /\ LsShown
    /\ HasTotpTab(LS) /\ HasFaceTab(LS)
    /\ tab # current_tab
    /\ LET l == on_tab_changed(LS, tab)
       IN  LsAssign(l) /\ UNCHANGED last_op
    /\ LsFrame

\* singleShot(500) -> _unlock: the unlocked signal runs
\* BreakGuardApp._on_unlock, then the screen closes (closeEvent 730-737).
LsUnlock ==
    /\ LsShown
    /\ unlock_pending
    /\ LET l == unlock([LS EXCEPT !.unlock_pending = FALSE])
       IN  /\ LsAssign(l)
           /\ last_op' = LsDone("_unlock", l)
           /\ IF l.emitted
              THEN AppAssign([on_unlock(SM) EXCEPT !.lock_screen = "closed"])
              ELSE UNCHANGED <<current_state, previous_state, additional_data,
                               state_file, config, time_remaining_seconds,
                               is_paused, is_locked, snooze_count,
                               work_timer_active, tick_pending, warning_timer,
                               lock_screen, warning_dialog, dialog_can_snooze,
                               dialog_clicks, dialog_timer, warnings_in_cycle>>
    /\ UNCHANGED <<state_callbacks, auto_persist, disk_ok, started>>

\* tray: Skip Current Break (work_timer.py 449-495): the code typed into the
\* prompt goes to TOTPAuth.verify_code; the lock screen is closed from
\* outside.
LsSkipBreak(code_ok) ==
    /\ LsShown
    /\ is_locked
    /\ LET l == IF code_ok THEN stop_camera([LS EXCEPT !.evaluated = 1])
                ELSE [LS EXCEPT !.evaluated = 1]
           \* a close() that never returns keeps _on_unlock from running
           m == IF l.raised = "blocked" THEN SM ELSE skip_break(SM, code_ok)
       IN  /\ AppAssign(m)
           /\ LsAssign(l)
           /\ last_op' = LsDone("_skip_break",
                                [l EXCEPT !.raised = IF l.raised = "blocked"
                                                     THEN "blocked"
                                                     ELSE m.raised])
    /\ UNCHANGED <<state_callbacks, auto_persist, disk_ok, started>>

LockNext ==
    \/ LsSecondPasses
    \/ \E code \in Codes : LsVerifyTotp(code)
    \/ LsStartFaceScan
    \/ LsCameraOpens
    \/ \E frame \in Frames : LsCameraFrame(frame)
    \/ LsVerifyFace
    \/ LsEnableInputs
    \/ \E tab \in {"totp", "face"} : LsTabChanged(tab)
    \/ LsUnlock
    \/ \E code_ok \in BOOLEAN : LsSkipBreak(code_ok)

SpecLock == LockInit /\ [][LockNext]_vars

(***************************************************************************)
(* Claims about the lock screen (SpecLock)                                 *)
(***************************************************************************)
\* C6: while a lockout is active, no TOTP code and no face frame is
\* evaluated by any path (a code typed or pasted on the lock screen, a face
\* check that was already scheduled, the tray's Skip Current Break prompt),
\* so no attempt made in that window can unlock.
C6_NoEvaluationDuringLockout ==
    last_op.in_lockout => last_op.evaluated = 0

\* C7: every exhaustion of the attempt budget in a lock screen session
\* raises lockout_count by one and locks for the table entry at index
\* min(lockout_count-1, 2): 60 seconds the first time, 300 the second, 900
\* from the third on.
C7_LockoutsEscalate ==
    last_op.selected # 0 =>
        /\ lockout_count = last_op.count_before + 1
        /\ last_op.selected = lockout_duration(lockout_count)

\* The failed verifications in a row, as the attempt budget counts them.
ConsecutiveFailures == InitialAttempts - attempts_remaining

\* C8: a lockout is triggered exactly when the number of consecutive failed
\* verifications reaches the configured max_authentication_attempts: the
\* failure that brings the count to that value starts a lockout, and no
\* earlier failure does.
C8_LockoutAtConfiguredLimit ==
    /\ last_op.selected # 0 =>
           ConsecutiveFailures >= config.max_authentication_attempts
    /\ ( /\ last_op.op \in {"_verify_totp", "_verify_face"}
         /\ attempts_remaining < last_op.attempts_before
         /\ ConsecutiveFailures >= config.max_authentication_attempts )
       => last_op.selected # 0 \/ last_op.in_lockout

\* C9: a lockout is temporary in every configuration of enabled factors:
\* the attempt budget is exhausted, and the code inputs stay disabled after
\* a lockout, only while the lockout runs or its re-enable is due.
C9_LockoutIsTemporary ==
    ( /\ lock_screen = "shown"
      /\ \/ attempts_remaining <= 0
         \/ /\ lockout_count > 0
            /\ HasTotpTab(LS) /\ ~otp_enabled /\ ~unlock_pending )
    => lockout_left > 0 \/ 0 \in enable_timers


(***************************************************************************)
(* Claims about recovery, snooze and pause (Spec)                          *)
(***************************************************************************)
\* The snapshot this process was constructed on said LOCKED and no lock
\* screen has been built since: the state machine is in LOCKED only because
\* load_state put it there, and nothing has been verified in this process.
RecoveredLocked ==
    /\ current_state = LOCKED
    /\ lock_screen = "unbound"

C12_SnoozeLimitEnforced ==
    [][(Snooze /\ snooze_count >= config.max_snooze_count)
          => UNCHANGED <<time_remaining_seconds, snooze_count>>]_vars


C14_PauseKeepsRemainingTime ==
    [][\/ UNCHANGED <<time_remaining_seconds, snooze_count>>
       \/ /\ ~TogglePause
          /\ \/ ~is_paused
             \/ Snooze
             \/ Launch
             \/ Restart
             \/ \E c \in Configs : SettingsChanged(c)]_vars

\* A work cycle that had counted down was paused and has just been resumed.
C14_Witness ==
    /\ last_op.op = "toggle_pause"
    /\ last_op.path = <<WORKING>>
    /\ previous_state = PAUSED
    /\ ~is_paused
    /\ work_timer_active
    /\ time_remaining_seconds > 0
    /\ time_remaining_seconds < get_work_interval_seconds(config)


(***************************************************************************)
(* Claims about callbacks (SpecSM)                                         *)
(***************************************************************************)
\* C15: a successful transition_to(new_state) sets previous_state to the old
\* current_state and current_state to new_state, and invokes the callbacks
\* registered for new_state, each exactly once and in the order of their
\* registration (the order of the list register_callback appends to), and
\* no other callback.
C15_CallbacksOfEnteredStateInOrder ==
    [][\A st \in AppState, force \in BOOLEAN :
          (SM_transition_to(st, force) /\ last_op'.result = "True")
          => /\ previous_state' = current_state
             /\ current_state' = st
             /\ last_op'.calls = state_callbacks[st]
             /\ \A i, j \in 1..Len(last_op'.calls) :
                   i # j => last_op'.calls[i] # last_op'.calls[j]]_vars

\* WARNING was entered with two callbacks registered for it, cb2 before cb1,
\* and a callback registered for WORKING as well.
C15_Witness ==
    /\ last_op.op = "transition_to"
    /\ last_op.result = "True"
    /\ current_state = WARNING
    /\ previous_state = WORKING
    /\ last_op.calls = <<"cb2", "cb1">>
    /\ state_callbacks[WARNING] = <<"cb2", "cb1">>
    /\ state_callbacks[WORKING] # <<>>


\* C16: when a callback registered for the entered state raises an
\* exception, transition_to still returns True, current_state and
\* previous_state have their new values, and every callback registered for
\* that state has been invoked, those after the raising one included.
C16_RaisingCallbackIsContained ==
    [][\A st \in AppState, force \in BOOLEAN :
          ( /\ SM_transition_to(st, force)
            /\ force \/ can_transition_to(current_state, st)
            /\ \E i \in 1..Len(state_callbacks[st]) :
                  state_callbacks[st][i] \in RaisingCallbacks )
          => /\ last_op'.result = "True"
             /\ current_state' = st
             /\ previous_state' = current_state
             /\ last_op'.calls = state_callbacks[st]]_vars

\* WARNING was entered; cb2, registered first, raised and was logged, and
\* cb1 was called after it.
C16_Witness ==
    /\ last_op.op = "transition_to"
    /\ last_op.result = "True"
    /\ current_state = WARNING
    /\ last_op.calls = <<"cb2", "cb1">>
    /\ last_op.logged = <<"cb2">>


(***************************************************************************)
(* Claims about persistence (SpecPersist)                                  *)
(***************************************************************************)
\* C17: with auto_persist enabled and the disk accepting writes, after every
\* successful transition_to the snapshot on disk names the in-memory
\* current_state and previous_state.
C17_SnapshotFollowsTransitions ==
    ( /\ last_op.op = "transition_to"
      /\ last_op.result = "True"
      /\ auto_persist
      /\ disk_ok )
    => /\ state_file.kind = "json"
       /\ state_file.current_state = Name(current_state)
       /\ previous_state # None
       /\ state_file.previous_state = Name(previous_state)

\* The transition WARNING -> LOCKED, made with data stored, has been saved.
C17_Witness ==
    /\ last_op.op = "transition_to"
    /\ last_op.result = "True"
    /\ auto_persist
    /\ disk_ok
    /\ current_state = LOCKED
    /\ previous_state = WARNING
    /\ state_file.current_state = "LOCKED"
    /\ state_file.previous_state = "WARNING"
    /\ additional_data # <<>>


\* C18: save_state followed by load_state on the same file reconstructs what
\* was saved.  Every snapshot of this specification was written by
\* save_state, so after a load_state that returned True the in-memory
\* current_state, previous_state (None for a saved null) and additional_data
\* are those the file records, whatever the StateManager held before.
C18_SaveLoadRoundTrip ==
    (last_op.op = "load_state" /\ last_op.result = "True")
    => /\ Name(current_state) = state_file.current_state
       /\ IF state_file.previous_state = "null"
          THEN previous_state = None
          ELSE /\ previous_state # None
               /\ Name(previous_state) = state_file.previous_state
       /\ additional_data = state_file.additional_data


(***************************************************************************)
(* SpecLoad: a StateManager constructed next to a state file that it did   *)
(* not write itself: any document with the four keys, its state names      *)
(* members of AppState or not, or a file that is not JSON.  The manager    *)
(* loads it, before or after transitions of its own (auto_persist off, so  *)
(* that the file stays as it was found).                                   *)
(***************************************************************************)
\* a state name no member of AppState has
UnknownName == "BREAK"

Snapshots ==
    [kind : {"json"},
     current_state : AppStateNames \cup {UnknownName},
     previous_state : AppStateNames \cup {"null", UnknownName},
     additional_data : {<<>>, [k \in DataKeys |-> 0]}]
    \cup {[NoFile EXCEPT !.kind = "invalid"]}

LoadInit ==
    /\ current_state = IDLE
    /\ previous_state = None
    /\ additional_data = <<>>
    /\ state_callbacks = [st \in AppState |-> <<>>]
    /\ auto_persist = FALSE
    /\ state_file \in Snapshots
    /\ disk_ok = TRUE
    /\ last_op = NoOp
    /\ config = [work_interval_minutes |-> 1, warning_before_minutes |-> 0,
                 max_snooze_count |-> 0, totp_enabled |-> TRUE,
                 face_verification_enabled |-> TRUE,
                 max_authentication_attempts |-> 5]
    /\ time_remaining_seconds = 0
    /\ is_paused = FALSE
    /\ is_locked = FALSE
    /\ snooze_count = 0
    /\ work_timer_active = FALSE
    /\ tick_pending = FALSE
    /\ warning_timer = -1
    /\ lock_screen = "unbound"
    /\ warning_dialog = "none"
    /\ dialog_can_snooze = FALSE
    /\ dialog_clicks = 0
    /\ dialog_timer = -1
    /\ warnings_in_cycle = 0
    /\ started = FALSE
    /\ attempts_remaining = 0
    /\ lockout_count = 0
    /\ otp_enabled = FALSE
    /\ scan_enabled = FALSE
    /\ current_tab = "none"
    /\ camera_thread = FALSE
    /\ current_frame = "none"
    /\ enable_timers = {}
    /\ face_timers = {}
    /\ unlock_pending = FALSE
    /\ lockout_left = 0
    /\ registered_faces = 0
    /\ camera_pc = "none"
    /\ camera_workers = 0
    /\ break_remaining_seconds = 0

LoadNext ==
    \/ SM_load_state
    \/ \E st \in AppState : SM_transition_to(st, FALSE)

SpecLoad == LoadInit /\ [][LoadNext]_vars


\* The snapshot is a JSON document in which current_state or previous_state
\* names no member of AppState.
UnknownNameInSnapshot ==
    /\ state_file.kind = "json"
    /\ \/ state_file.current_state \notin AppStateNames
       \/ state_file.previous_state \notin AppStateNames \cup {"null"}

\* C19: load_state on a snapshot whose current_state or previous_state name
\* is not an AppState member does not raise, and the machine, in IDLE as
\* constructed, is in IDLE after it.
C19_UnknownNameFailsClosedToIdle ==
    [][(SM_load_state /\ UnknownNameInSnapshot /\ current_state = IDLE)
          => /\ last_op'.result \in {"True", "False"}
             /\ current_state' = IDLE]_vars


(***************************************************************************)
(* Claims about failing writes (SpecSM)                                    *)
(***************************************************************************)
\* C20: a failing snapshot write is never raised to the caller.  With
\* auto_persist on and the disk refusing the write, an accepted transition_to
\* still sets current_state and previous_state, runs the callbacks of the
\* entered state and returns True, and set_data still stores the value in
\* memory and returns normally; the file is left as it was.
C20_WriteFailureNotRaised ==
    [][(auto_persist /\ ~disk_ok) =>
          /\ \A st \in AppState, force \in BOOLEAN :
                ( /\ SM_transition_to(st, force)
                  /\ force \/ can_transition_to(current_state, st) )
                => /\ last_op'.result = "True"
                   /\ current_state' = st
                   /\ previous_state' = current_state
                   /\ last_op'.calls = state_callbacks[st]
                   /\ UNCHANGED state_file
          /\ \A k \in SMDataKeys, v \in 0..MaxDataValue :
                SM_set_data(k, v)
                => /\ last_op'.result = ""
                   /\ get_data([additional_data |-> additional_data'], k) = v
                   /\ UNCHANGED <<current_state, previous_state, state_file>>]_vars

\* With the disk refusing every write, data was stored and WARNING was then
\* entered with a callback registered for it; no file was ever written.
C20_Witness ==
    /\ auto_persist
    /\ ~disk_ok
    /\ last_op.op = "transition_to"
    /\ last_op.result = "True"
    /\ last_op.calls # <<>>
    /\ current_state = WARNING
    /\ previous_state = WORKING
    /\ additional_data # <<>>
    /\ state_file = NoFile


(***************************************************************************)
(* SpecTick: one installation whose work interval is a whole number of     *)
(* persist periods long, as every interval is in the source (60 seconds to *)
(* the minute, a write every 10 seconds).  The configuration stays as it   *)
(* is: the application is launched, ticks, warns, is snoozed, paused and   *)
(* resumed, locks and is unlocked.                                         *)
(***************************************************************************)
\* minutes of a work interval that is PersistPeriod ticks long
LongIntervalMinutes == 5

TickConfig ==
    [work_interval_minutes |-> LongIntervalMinutes,
     warning_before_minutes |-> 1,
     max_snooze_count |-> 1,
     totp_enabled |-> TRUE,
     face_verification_enabled |-> TRUE,
     max_authentication_attempts |-> 5]

TickInit ==
    /\ state_callbacks = [st \in AppState |-> <<>>]
    /\ auto_persist = TRUE
    /\ disk_ok = TRUE
    /\ attempts_remaining = 0
    /\ lockout_count = 0
    /\ otp_enabled = FALSE
    /\ scan_enabled = FALSE
    /\ current_tab = "none"
    /\ camera_thread = FALSE
    /\ current_frame = "none"
    /\ enable_timers = {}
    /\ face_timers = {}
    /\ unlock_pending = FALSE
    /\ lockout_left = 0
    /\ registered_faces = 0
    /\ camera_pc = "none"
    /\ camera_workers = 0
    /\ break_remaining_seconds = 0
    /\ LET m == app_init(NoFile, TickConfig)
       IN  /\ current_state = m.current_state
           /\ previous_state = m.previous_state
           /\ additional_data = m.additional_data
           /\ state_file = m.state_file
           /\ config = m.config
           /\ time_remaining_seconds = m.time_remaining_seconds
           /\ is_paused = m.is_paused
           /\ is_locked = m.is_locked
           /\ snooze_count = m.snooze_count
           /\ work_timer_active = m.work_timer_active
           /\ tick_pending = m.tick_pending
           /\ warning_timer = m.warning_timer
           /\ lock_screen = m.lock_screen
           /\ warning_dialog = m.warning_dialog
           /\ dialog_can_snooze = m.dialog_can_snooze
           /\ dialog_clicks = m.dialog_clicks
           /\ dialog_timer = m.dialog_timer
           /\ warnings_in_cycle = m.warnings_in_cycle
           /\ started = FALSE
           /\ last_op = Done("__init__", m)

TickNext ==
    \/ Launch
    \/ SecondPasses
    \/ Tick
    \/ Warn
    \/ Snooze
    \/ DialogAccept
    \/ DialogCloses
    \/ TogglePause
    \/ Unlocked

SpecTick == TickInit /\ [][TickNext]_vars


\* The ticks counted in the running cycle: start() set the remaining time
\* to the work interval, every snooze added SnoozeSeconds and every counted
\* tick took one second off (the configuration is fixed in SpecTick).
TicksInCycle ==
    get_work_interval_seconds(config) + SnoozeSeconds * snooze_count
        - time_remaining_seconds

\* The work interval and a snooze are whole numbers of persist periods, as
\* they are in the source (60 * minutes and 5 * 60 seconds, a period of 10).
WholePersistPeriods ==
    /\ get_work_interval_seconds(config) % PersistPeriod = 0
    /\ SnoozeSeconds % PersistPeriod = 0

\* C21: while the timer is ticking, every 10th tick of the running cycle
\* writes the current time_remaining_seconds and snooze_count to the
\* persisted snapshot.
C21_EveryTenthTickPersists ==
    ( /\ WholePersistPeriods
      /\ started
      /\ last_op.op = "_on_timer_tick"
      /\ TicksInCycle > 0
      /\ TicksInCycle % PersistPeriod = 0 )
    => /\ state_file.kind = "json"
       /\ DataKeys \subseteq DOMAIN state_file.additional_data
       /\ state_file.additional_data["time_remaining_seconds"] = time_remaining_seconds
       /\ state_file.additional_data["snooze_count"] = snooze_count

\* The 10th tick of a cycle that was snoozed once: ten seconds are left.
C21_Witness ==
    /\ WholePersistPeriods
    /\ started
    /\ last_op.op = "_on_timer_tick"
    /\ TicksInCycle = PersistPeriod
    /\ snooze_count = 1
    /\ time_remaining_seconds = PersistPeriod
    /\ state_file.additional_data["snooze_count"] = 1
    /\ state_file.additional_data["time_remaining_seconds"] = PersistPeriod


(***************************************************************************)
(* TOTP submissions that are not six decimal digits.                       *)
(***************************************************************************)
\* The code read from the boxes is not exactly six decimal digits.
Malformed(code) == code \in {"incomplete", "nondigit"}

\* C22: a TOTP submission that is not exactly six decimal digits (wrong
\* length or containing a non-digit) is rejected without handing it to
\* TOTPAuth.verify_code: _verify_totp ends with no code evaluated and no
\* unlock under way.
C22_MalformedNeverReachesVerifyCode ==
    (last_op.op = "_verify_totp" /\ Malformed(last_op.input))
        => (last_op.evaluated = 0 /\ ~unlock_pending)

\* C23: a malformed TOTP submission consumes one attempt, exactly like a
\* well-formed wrong code: after it the budget is one lower, or, when the
\* budget was exhausted, a lockout has been selected.
C23_MalformedConsumesAttempt ==
    (last_op.op = "_verify_totp" /\ Malformed(last_op.input))
        => \/ attempts_remaining = last_op.attempts_before - 1
           \/ last_op.selected > 0


(***************************************************************************)
(* SpecTotp: TOTPAuth.verify_code as a function of the stored secret, the  *)
(* clock and the code (totp_auth.py 223-245).  A secret is represented by  *)
(* the codes it derives, one per 30-second step; different steps may       *)
(* derive the same code.  pyotp's TOTP.verify(code, valid_window = w)      *)
(* compares the code with the codes of the steps now-w .. now+w, as the    *)
(* comment at totp_auth.py 241 says for w = 1.                             *)
(***************************************************************************)
MaxStep == 4
NumCodeValues == 3
TotpSteps == 0..MaxStep
CodeValues == 1..NumCodeValues
\* no secret: None, or load_secret() found nothing
NoSecret == <<>>
Secrets == [TotpSteps -> CodeValues]

\* pyotp.TOTP(secret).at(for_time, i): the code of step
at(secret, step) == secret[step]

totp_verify_NoWindow(secret, code, now, valid_window) ==
    code = at(secret, now)

\* pyotp.TOTP(secret).verify(code, valid_window)
totp_verify(secret, code, now, valid_window) ==
    \E i \in -valid_window..valid_window : code = at(secret, now + i)

\* TOTPAuth.verify_code(code, secret) at clock step `now`, for a TOTPAuth
\* whose self._secret or load_secret() is `stored`
TOTPAuth_verify_code(stored, code, secret, now) ==
    LET s == IF secret = NoSecret THEN stored ELSE secret
    IN  IF s = NoSecret THEN FALSE
        ELSE totp_verify(s, code, now, 1)

TotpInit ==
    /\ current_state = LOCKED
    /\ previous_state = WARNING
    /\ additional_data = [time_remaining_seconds |-> 0, snooze_count |-> 0]
    /\ state_callbacks = [st \in AppState |-> <<>>]
    /\ auto_persist = TRUE
    /\ state_file = [kind |-> "json", current_state |-> Name(LOCKED),
                     previous_state |-> Name(WARNING),
                     additional_data |-> [time_remaining_seconds |-> 0,
                                          snooze_count |-> 0]]
    /\ disk_ok = TRUE
    /\ \E stored \in Secrets \cup {NoSecret}, now \in 1..(MaxStep - 1) :
          last_op = [op |-> "none", stored |-> stored, now |-> now,
                     code |-> 0, secret |-> NoSecret, result |-> FALSE]
    /\ config = [work_interval_minutes |-> 1, warning_before_minutes |-> 0,
                 max_snooze_count |-> 0, totp_enabled |-> TRUE,
                 face_verification_enabled |-> TRUE,
                 max_authentication_attempts |-> 5]
    /\ time_remaining_seconds = 0
    /\ is_paused = FALSE
    /\ is_locked = TRUE
    /\ snooze_count = 0
    /\ work_timer_active = FALSE
    /\ tick_pending = FALSE
    /\ warning_timer = -1
    /\ lock_screen = "shown"
    /\ warning_dialog = "none"
    /\ dialog_can_snooze = FALSE
    /\ dialog_clicks = 0
    /\ dialog_timer = -1
    /\ warnings_in_cycle = 1
    /\ started = TRUE
    /\ attempts_remaining = InitialAttempts
    /\ lockout_count = 0
    /\ otp_enabled = TRUE
    /\ scan_enabled = TRUE
    /\ current_tab = "totp"
    /\ camera_thread = FALSE
    /\ current_frame = "none"
    /\ enable_timers = {}
    /\ face_timers = {}
    /\ unlock_pending = FALSE
    /\ lockout_left = 0
    /\ registered_faces = 0
    /\ camera_pc = "none"
    /\ camera_workers = 0
    /\ break_remaining_seconds = 0

\* verify_code(code) and verify_code(code, secret)
TotpVerifyCode(code, secret) ==
    /\ last_op' = [last_op EXCEPT
                     !.op = "verify_code", !.code = code, !.secret = secret,
                     !.result = TOTPAuth_verify_code(last_op.stored, code,
                                                     secret, last_op.now)]
    /\ UNCHANGED <<current_state, previous_state, additional_data,
                   state_callbacks, auto_persist, state_file, disk_ok,
                   appVars, lockVars>>

\* thirty seconds pass
TotpStepPasses ==
    /\ last_op.now < MaxStep - 1
    /\ last_op' = [last_op EXCEPT !.op = "none", !.now = @ + 1, !.code = 0,
                                  !.secret = NoSecret, !.result = FALSE]
    /\ UNCHANGED <<current_state, previous_state, additional_data,
                   state_callbacks, auto_persist, state_file, disk_ok,
                   appVars, lockVars>>

TotpNext ==
    \/ \E code \in CodeValues, secret \in {NoSecret, [s \in TotpSteps |-> 1]} :
          TotpVerifyCode(code, secret)
    \/ TotpStepPasses

SpecTotp == TotpInit /\ [][TotpNext]_vars

\* The secret whose codes decide a call: the argument, else the stored one.
SecretUsed == IF last_op.secret = NoSecret THEN last_op.stored ELSE last_op.secret

\* C24: verify_code accepts a code if and only if it is the code the secret
\* derives for step now-1, now or now+1; in particular the code of a step
\* two or more away that none of these three steps derives is rejected, and
\* without a secret nothing is accepted.
C24_AcceptsExactlyAdjacentSteps ==
    last_op.op = "verify_code"
        => /\ SecretUsed = NoSecret => ~last_op.result
           /\ SecretUsed # NoSecret =>
                 (last_op.result <=>
                     \/ last_op.code = at(SecretUsed, last_op.now - 1)
                     \/ last_op.code = at(SecretUsed, last_op.now)
                     \/ last_op.code = at(SecretUsed, last_op.now + 1))

\* The code of step now+1, which no other step derives, is accepted at
\* step 2 against the stored secret.
C24_Witness ==
    /\ last_op.op = "verify_code"
    /\ last_op.secret = NoSecret /\ last_op.stored # NoSecret
    /\ last_op.now = 2
    /\ last_op.result
    /\ last_op.code = at(last_op.stored, 3)
    /\ last_op.code # at(last_op.stored, 2)
    /\ last_op.code # at(last_op.stored, 1)
    /\ at(last_op.stored, 0) # last_op.code
    /\ at(last_op.stored, 4) # last_op.code


(***************************************************************************)
(* Face verification with no face enrolled.                                *)
(***************************************************************************)
\* C25: with no face enrolled, verify_face passes every frame, so a face
\* scan on the lock screen that has obtained a camera frame ends with the
\* frame evaluated and the unlock under way, whatever the frame shows.
C25_NoEnrolledFaceScanUnlocks ==
    ( /\ last_op.op = "_verify_face"
      /\ registered_faces = 0
      /\ current_frame # "none" )
        => /\ last_op.result = ""
           /\ last_op.evaluated = 1
           /\ unlock_pending


(***************************************************************************)
(* Elapsed time of the work cycle.                                         *)
(***************************************************************************)
\* the configured work interval minus the remaining time
Elapsed == get_work_interval_seconds(config) - time_remaining_seconds

\* C26: within a work cycle of the running application (start() has run
\* and the process goes on), while the state is WORKING or WARNING the
\* elapsed time never decreases, and no operation performed in WORKING, WARNING or
\* PAUSED takes a cycle that has run for some time back to a fresh full
\* interval: that happens only on entering WORKING from IDLE or LOCKED.
C26_ElapsedNeverDecreases ==
    [][ /\ ( /\ started /\ started'
             /\ current_state \in {WORKING, WARNING}
             /\ current_state' \in {WORKING, WARNING} )
            => Elapsed' >= Elapsed
        /\ ( /\ started /\ started'
             /\ current_state \in {WORKING, WARNING, PAUSED}
             /\ Elapsed > 0 )
            => ~( /\ current_state' = WORKING
                  /\ Elapsed' = 0 ) ]_vars


(***************************************************************************)
(* The camera worker of the lock screen.                                   *)
(***************************************************************************)
\* C27: the camera worker is stopped and joined before the lock screen
\* closes and whenever the face-verification view is left: once the screen
\* has closed, or a tab other than the face tab is in front, no camera
\* thread is running and no handler is left waiting for one.
C27_CameraStoppedWhenViewLeft ==
    (lock_screen = "closed" \/ current_tab # "face")
        => (~camera_thread /\ camera_pc = "none")


\* C28: at most one camera worker thread exists at any time for a lock
\* screen, whatever the sequence of scan-button presses, tab switches,
\* verification results and lockout expiries.
C28_AtMostOneCameraWorker == camera_workers <= 1

\* Scan Face was pressed while a camera worker was running, and there is
\* still one worker.
C28_Witness ==
    /\ last_op.op = "_start_face_scan"
    /\ last_op.camera_before
    /\ camera_thread
    /\ camera_workers = 1


(***************************************************************************)
(* The lockout after failed face checks.                                   *)
(***************************************************************************)
\* C29: the lockout rules are the same whichever factor fails: a failed
\* face verification that exhausts the attempt budget raises lockout_count
\* by one and locks for the entry of the escalating table at index
\* min(lockout_count-1, 2), as a failed TOTP code does.
C29_FaceLockoutEscalates ==
    (last_op.op = "_verify_face" /\ last_op.selected # 0)
        => /\ lockout_count = last_op.count_before + 1
           /\ last_op.selected = lockout_duration(lockout_count)


(***************************************************************************)
(* Pause and resume before the warning.                                    *)
(***************************************************************************)
\* C30: in a work cycle that is paused and then resumed before the warning
\* has fired, the warning still fires when time_remaining_seconds reaches
\* the warning threshold, before the lock.  The warning fires from
\* warning_timer alone (work_timer.py 77-78), so when toggle_pause resumes
\* such a cycle above the threshold, warning_timer must be left running for
\* the seconds that remain until the threshold.
C30_WarningSurvivesPause ==
    [][ ( /\ TogglePause
          /\ started
          /\ is_paused /\ ~is_paused'
          /\ warnings_in_cycle = 0
          /\ get_warning_time_seconds(config) > 0
          /\ time_remaining_seconds > get_warning_time_seconds(config) )
        => warning_timer' = time_remaining_seconds'
                              - get_warning_time_seconds(config) ]_vars


(***************************************************************************)
(* SpecBreak: a LockScreen session with its break countdown.  time_timer   *)
(* (lock_screen_pyqt.py 170-172) runs _update_time every second; the       *)
(* session is driven through the TOTP tab and the tray.                    *)
(***************************************************************************)
\* lock_screen_pyqt.py 687-702
update_time(l) ==
    IF l.break_remaining_seconds > 0
    THEN [l EXCEPT !.break_remaining_seconds = @ - 1]
    ELSE IF l.config.auto_unlock_after_break THEN unlock(l)
    ELSE l

BreakInit ==
    /\ current_state = LOCKED
    /\ previous_state = WARNING
    /\ additional_data = [time_remaining_seconds |-> 0, snooze_count |-> 0]
    /\ state_callbacks = [st \in AppState |-> <<>>]
    /\ auto_persist = TRUE
    /\ state_file = [kind |-> "json", current_state |-> Name(LOCKED),
                     previous_state |-> Name(WARNING),
                     additional_data |-> [time_remaining_seconds |-> 0,
                                          snooze_count |-> 0]]
    /\ disk_ok = TRUE
    /\ \E auto \in BOOLEAN :
          config = [work_interval_minutes |-> 2, warning_before_minutes |-> 1,
                    max_snooze_count |-> 1, totp_enabled |-> TRUE,
                    face_verification_enabled |-> TRUE,
                    max_authentication_attempts |-> 5,
                    auto_unlock_after_break |-> auto]
    /\ time_remaining_seconds = 0
    /\ is_paused = FALSE
    /\ is_locked = TRUE
    /\ snooze_count = 0
    /\ work_timer_active = FALSE
    /\ tick_pending = FALSE
    /\ warning_timer = -1
    /\ lock_screen = "shown"
    /\ warning_dialog = "none"
    /\ dialog_can_snooze = FALSE
    /\ dialog_clicks = 0
    /\ dialog_timer = -1
    /\ warnings_in_cycle = 1
    /\ started = TRUE
    /\ attempts_remaining = InitialAttempts
    /\ lockout_count = 0
    /\ otp_enabled = TRUE
    /\ scan_enabled = TRUE
    /\ current_tab = "totp"
    /\ camera_thread = FALSE
    /\ current_frame = "none"
    /\ enable_timers = {}
    /\ face_timers = {}
    /\ unlock_pending = FALSE
    /\ lockout_left = 0
    /\ registered_faces = 1
    /\ camera_pc = "none"
    /\ camera_workers = 0
    /\ break_remaining_seconds = BreakMinutes * SecondsPerMinute
    /\ last_op = LsIdle

\* One second passes and time_timer.timeout runs _update_time; its
\* auto-unlock goes through _unlock like a verified one.
LsUpdateTime ==
    /\ LsShown
    /\ ~unlock_pending
    /\ 0 \notin enable_timers \cup face_timers
    /\ LET l0 == [LS EXCEPT !.enable_timers = {s - 1 : s \in @},
                            !.face_timers = {s - 1 : s \in @},
                            !.lockout_left = IF @ > 0 THEN @ - 1 ELSE 0]
           l == update_time(l0)
       IN  /\ LsAssign(l)
           /\ last_op' = LsDone("_update_time", l)
           /\ IF l.emitted
              THEN AppAssign([on_unlock(SM) EXCEPT !.lock_screen = "closed"])
              ELSE UNCHANGED <<current_state, previous_state, additional_data,
                               state_file, config, time_remaining_seconds,
                               is_paused, is_locked, snooze_count,
                               work_timer_active, tick_pending, warning_timer,
                               lock_screen, warning_dialog, dialog_can_snooze,
                               dialog_clicks, dialog_timer, warnings_in_cycle>>
    /\ UNCHANGED <<state_callbacks, auto_persist, disk_ok, started>>

BreakNext ==
    \/ LsUpdateTime
    \/ \E code \in Codes : LsVerifyTotp(code)
    \/ LsEnableInputs
    \/ LsUnlock
    \/ \E code_ok \in BOOLEAN : LsSkipBreak(code_ok)

SpecBreak == BreakInit /\ [][BreakNext]_vars

C32_LockedFlagMatchesState ==
    is_locked <=> current_state = LOCKED


\* C33: in every reachable state of BreakGuardApp the is_paused flag is
\* true exactly when the state machine's current_state is PAUSED; a pause
\* toggle whose transition is rejected leaves is_paused false.
C33_PausedFlagMatchesState ==
    is_paused <=> current_state = PAUSED


(***************************************************************************)
(* SpecEdges: a StateManager on which transition_to is only called         *)
(* without force (state_manager.py 90-121), between registrations of       *)
(* callbacks and stores of data.                                           *)
(***************************************************************************)
EdgesNext ==
    \/ \E st \in AppState : SM_transition_to(st, FALSE)
    \/ \E st \in CallbackStates, cb \in CallbackIds : SM_register_callback(st, cb)
    \/ \E st \in CallbackStates, cb \in CallbackIds : SM_unregister_callback(st, cb)
    \/ \E k \in SMDataKeys, v \in 0..MaxDataValue : SM_set_data(k, v)

SpecEdges == SMInit /\ [][EdgesNext]_vars

\* C34: after any sequence of non-forced transition_to calls, successful or
\* rejected, whenever previous_state is set the pair (previous_state,
\* current_state) is an edge of VALID_TRANSITIONS; LOCKED is only entered
\* from WARNING and PAUSED only from WORKING.
C34_PreviousToCurrentIsAnEdge ==
    /\ previous_state # None => current_state \in VALID_TRANSITIONS(previous_state)
    /\ current_state = LOCKED => previous_state = WARNING
    /\ current_state = PAUSED => previous_state = WORKING

\* A non-forced call rejected in LOCKED, which was entered from WARNING.
C34_Witness ==
    /\ last_op.op = "transition_to"
    /\ last_op.result = "StateTransitionError"
    /\ current_state = LOCKED
    /\ previous_state = WARNING


(***************************************************************************)
(* SpecStart: BreakGuardApp constructed on a state file that names any     *)
(* AppState (work_timer.py 40-55 restores it), then launched and run.      *)
(***************************************************************************)
StartSnapshots ==
    [kind : {"json"},
     current_state : AppStateNames,
     previous_state : {"null"},
     additional_data : {<<>>, [time_remaining_seconds |-> 1, snooze_count |-> 0]}]
    \cup {NoFile}

StartConfigs ==
    [work_interval_minutes : 1..MaxIntervalMinutes,
     warning_before_minutes : {1},
     max_snooze_count : {1},
     totp_enabled : {TRUE},
     face_verification_enabled : {TRUE},
     max_authentication_attempts : {5}]

StartInit ==
    /\ state_callbacks = [st \in AppState |-> <<>>]
    /\ auto_persist = TRUE
    /\ disk_ok = TRUE
    /\ attempts_remaining = 0
    /\ lockout_count = 0
    /\ otp_enabled = FALSE
    /\ scan_enabled = FALSE
    /\ current_tab = "none"
    /\ camera_thread = FALSE
    /\ current_frame = "none"
    /\ enable_timers = {}
    /\ face_timers = {}
    /\ unlock_pending = FALSE
    /\ lockout_left = 0
    /\ registered_faces = 0
    /\ camera_pc = "none"
    /\ camera_workers = 0
    /\ break_remaining_seconds = 0
    /\ \E file \in StartSnapshots, c \in StartConfigs :
          LET m == app_init(file, c)
          IN  /\ current_state = m.current_state
              /\ previous_state = m.previous_state
              /\ additional_data = m.additional_data
              /\ state_file = m.state_file
              /\ config = m.config
              /\ time_remaining_seconds = m.time_remaining_seconds
              /\ is_paused = m.is_paused
              /\ is_locked = m.is_locked
              /\ snooze_count = m.snooze_count
              /\ work_timer_active = m.work_timer_active
              /\ tick_pending = m.tick_pending
              /\ warning_timer = m.warning_timer
              /\ lock_screen = m.lock_screen
              /\ warning_dialog = m.warning_dialog
              /\ dialog_can_snooze = m.dialog_can_snooze
              /\ dialog_clicks = m.dialog_clicks
              /\ dialog_timer = m.dialog_timer
              /\ warnings_in_cycle = m.warnings_in_cycle
              /\ started = FALSE
              /\ last_op = Done("__init__", m)

StartNext ==
    \/ Launch
    \/ SecondPasses
    \/ Tick
    \/ Warn
    \/ Snooze
    \/ DialogAccept
    \/ DialogCloses
    \/ TogglePause
    \/ \E minutes \in 1..MaxIntervalMinutes : QuickChangeInterval(minutes)
    \/ Unlocked

SpecStart == StartInit /\ [][StartNext]_vars

\* What start() leaves behind when it ran to its end.
StartedWorking(m) ==
    /\ m.raised = ""
    /\ m.current_state = WORKING
    /\ ~m.is_paused
    /\ m.time_remaining_seconds = get_work_interval_seconds(m.config)
    /\ m.work_timer_active

\* C35: start() never fails with an invalid transition: called in any
\* reachable state, whatever the AppState, it ends with current_state
\* WORKING, is_paused false, time_remaining_seconds at the configured work
\* interval and the tick timer running.
C35_StartAlwaysReachesWorking ==
    /\ StartedWorking(start(SM))
    /\ last_op.op = "start" =>
          /\ last_op.result = ""
          /\ current_state = WORKING
          /\ ~is_paused
          /\ time_remaining_seconds = get_work_interval_seconds(config)
          /\ work_timer_active

\* start() has run on an instance that was constructed in SETUP.
C35_Witness ==
    /\ last_op.op = "start"
    /\ previous_state = SETUP
    /\ current_state = WORKING
    /\ work_timer_active


\* A handler that took the fields to m left the countdown, the snooze
\* count, the pause flag, the state and both timers as they are.
LeavesCycleAlone(m) ==
    /\ m.time_remaining_seconds = time_remaining_seconds
    /\ m.snooze_count = snooze_count
    /\ m.is_paused = is_paused
    /\ m.current_state = current_state
    /\ m.work_timer_active = work_timer_active
    /\ m.warning_timer = warning_timer

\* C36: while is_locked is true, toggle_pause, _quick_change_interval and
\* _on_settings_changed leave time_remaining_seconds, snooze_count,
\* is_paused and current_state unchanged and start neither the tick timer
\* nor the warning timer.
C36_TrayLeavesLockedCycleAlone ==
    is_locked =>
        /\ LeavesCycleAlone(toggle_pause_body(SM))
        /\ \A minutes \in 1..MaxIntervalMinutes :
              LeavesCycleAlone(quick_change_interval(SM, minutes))
        /\ \A c \in SavedConfigs :
              LeavesCycleAlone(on_settings_changed(SM, c))

\* The interval was changed from the tray while the lock screen was up.
C36_Witness ==
    /\ is_locked
    /\ current_state = LOCKED
    /\ lock_screen = "shown"
    /\ last_op.op = "_quick_change_interval"
    /\ ~work_timer_active


\* C37: time_remaining_seconds is never negative in any reachable state:
\* no tick is applied when time_remaining_seconds is already 0, pause
\* toggles issued before the first start included.
C37_TimeRemainingNeverNegative ==
    time_remaining_seconds >= 0


\* C38: when load_state returns False, current_state, previous_state and
\* the additional data are exactly as they were before the call: a failed
\* load performs no partial restore.
C38_FailedLoadRestoresNothing ==
    [][(SM_load_state /\ last_op'.result = "False")
          => /\ current_state' = current_state
             /\ previous_state' = previous_state
             /\ additional_data' = additional_data]_vars


\* C39: inputs disabled by a lockout stay disabled, and the attempt budget
\* stays exhausted, for the full duration selected for that lockout: no
\* _enable_inputs scheduled by an earlier or overlapping lockout runs
\* while time of a selected lockout is still left.
C39_NoReenableBeforeLockoutEnds ==
    [][LsEnableInputs => lockout_left = 0]_vars


\* C40: _stop_camera always terminates: for every interleaving of
\* CameraThread.stop() with the worker's start-up and capture loop, the
\* loop exits and wait() returns, so no handler is ever left blocked in
\* _stop_camera behind a worker that loops for ever.
C40_StopCameraAlwaysReturns ==
    camera_pc # "stuck"

=============================================================================
